---- MODULE Spec2Model ----
(***************************************************************************)
(* SheetPilot: the pipeline orchestrator (app/core/orchestrator.py) and    *)
(* the transforms it runs (modules/*, plugins/intelligent_text_normalizer).*)
(*                                                                         *)
(* A DataFrame is an object on a heap: run_pipeline holds references, and  *)
(* a transform is handed the reference of the working table, so a          *)
(* transform that edits its argument in place edits the object the         *)
(* orchestrator holds.  Two run_pipeline calls (Runs) live side by side in *)
(* one process: they share the heap, the libraries and the audit table,    *)
(* and each has its own steps, locals and report.                          *)
(***************************************************************************)
EXTENDS Integers, Sequences, FiniteSets, TLC

\* ------------------------------------------------------------------ bounds
MaxRows == 2
MaxSteps == 2
MaxItems == 2
MaxListed == 1
MaxIds == 2
MaxText == 3

Runs == {1, 2}

\* ------------------------------------------------------------------- cells
\* One cell of a column.  n is the number of a numeric cell, s the characters
\* of a text cell (a sequence of one-character strings); NaN is pandas'
\* missing marker (NaN / None).
Num(n) == [kind |-> "num", n |-> n, s |-> <<>>]
Str(s) == [kind |-> "str", n |-> 0, s |-> s]
Bool(b) == [kind |-> "bool", n |-> IF b THEN 1 ELSE 0, s |-> <<>>]
NaN == [kind |-> "nan", n |-> 0, s |-> <<>>]

IsNa(c) == c.kind = "nan"

\* ------------------------------------------------------------- sequences
Range(seq) == {seq[k] : k \in 1..Len(seq)}

RECURSIVE SeqSum(_)
SeqSum(seq) == IF seq = <<>> THEN 0 ELSE Head(seq) + SeqSum(Tail(seq))

Min(S) == CHOOSE x \in S : \A y \in S : x <= y
Max(S) == CHOOSE x \in S : \A y \in S : x >= y

\* the elements of seq at the positions where keep is TRUE, in order
RECURSIVE SelectAt(_, _)
SelectAt(seq, keep) ==
    IF seq = <<>> THEN <<>>
    ELSE (IF Head(keep) THEN <<Head(seq)>> ELSE <<>>)
             \o SelectAt(Tail(seq), Tail(keep))

\* the integers of a set in increasing order
RECURSIVE SortedSeq(_)
SortedSeq(S) ==
    IF S = {} THEN <<>> ELSE <<Min(S)>> \o SortedSeq(S \ {Min(S)})

\* --------------------------------------------------------------- DataFrame
\* columns: the column labels in order; index: the row labels in order;
\* dtypes[c]: "float64", "int64", "bool" or "object"; data[c]: the cells of
\* column c, one per row.
DataFrame(columns, index, dtypes, data) ==
    [columns |-> columns, index |-> index, dtypes |-> dtypes, data |-> data]

NRows(t) == Len(t.index)
ColumnSet(t) == Range(t.columns)

\* pd.api.types.is_numeric_dtype
is_numeric_dtype(t, col) == t.dtypes[col] \in {"float64", "int64", "bool"}

\* pd.api.types.is_string_dtype(..) or is_object_dtype(..)
is_text_dtype(t, col) == t.dtypes[col] = "object"

\* an assignment that blanks the other columns: their cells become missing
SetColumn_BlanksOthers(t, col, dtype, cells) ==
    DataFrame(IF col \in ColumnSet(t) THEN t.columns ELSE Append(t.columns, col),
              t.index,
              [c \in ColumnSet(t) \cup {col} |->
                  IF c = col THEN dtype ELSE t.dtypes[c]],
              [c \in ColumnSet(t) \cup {col} |->
                  IF c = col THEN cells ELSE [k \in 1..Len(t.index) |-> NaN]])

\* df[col] = cells (assignment of a whole column, new or existing)
SetColumn(t, col, dtype, cells) ==
    DataFrame(IF col \in ColumnSet(t) THEN t.columns ELSE Append(t.columns, col),
              t.index,
              [c \in ColumnSet(t) \cup {col} |->
                  IF c = col THEN dtype ELSE t.dtypes[c]],
              [c \in ColumnSet(t) \cup {col} |->
                  IF c = col THEN cells ELSE t.data[c]])

\* df[mask]: the rows where keep is TRUE, with their labels
SelectRows(t, keep) ==
    DataFrame(t.columns, SelectAt(t.index, keep), t.dtypes,
              [c \in ColumnSet(t) |-> SelectAt(t.data[c], keep)])

\* -------------------------------------------------------------------- heap
\* A heap maps the references of the live DataFrame objects to their
\* contents.  df.copy() allocates a new object with equal contents.
ObjIds == 0..5

NewRef(h) == Min(ObjIds \ DOMAIN h)

Alloc(h, t) == [id \in DOMAIN h \cup {NewRef(h)} |->
                   IF id \in DOMAIN h THEN h[id] ELSE t]

Store(h, ref, t) == [h EXCEPT ![ref] = t]

\* result_df = df: no copy, the caller's object itself
Copy_Alias(h, ref) == [heap |-> h, ref |-> ref]

\* pd.DataFrame(columns=df.columns): the columns without the rows
Copy_ColumnsOnly(h, ref) ==
    [heap |-> Alloc(h, SelectRows(h[ref], [k \in 1..NRows(h[ref]) |-> FALSE])),
     ref |-> NewRef(h)]

\* df.copy(): a new object with the contents of the object ref
Copy(h, ref) == [heap |-> Alloc(h, h[ref]), ref |-> NewRef(h)]

\* objects that no reference in roots reaches are freed
Collect(h, roots) == [id \in DOMAIN h \cap roots |-> h[id]]

\* ---------------------------------------------------------------- outcomes
\* What a call produces: a returned value, or a raised exception with its
\* type and message (text plus the column names the message quotes).
NoFrame == DataFrame(<<>>, <<>>, <<>>, <<>>)

Msg(text, cols) == [text |-> text, cols |-> cols]

\* same: the returned value is the object the call was given, not a new
\* one; events: the audit entries the call wrote.
Returns(t) ==
    [raised |-> FALSE, exc |-> "", msg |-> Msg("", {}), value |-> t,
     same |-> FALSE, events |-> <<>>]

Raises(exc, msg) ==
    [raised |-> TRUE, exc |-> exc, msg |-> msg, value |-> NoFrame,
     same |-> FALSE, events |-> <<>>]

\* params.get(key, default) / a keyword parameter with a default
Get(params, key, default) ==
    IF key \in DOMAIN params THEN params[key] ELSE default

\* ------------------------------------------------------------ cell order
\* Characters in code-point order; Ord is the position of a character.
Alphabet == <<" ", "!", "0", "A", "B", "a", "b", "n">>

Ord(ch) == CHOOSE k \in 1..Len(Alphabet) : Alphabet[k] = ch

RECURSIVE TextLess(_, _)
TextLess(a, b) ==
    IF b = <<>> THEN FALSE
    ELSE IF a = <<>> THEN TRUE
    ELSE IF Head(a) # Head(b) THEN Ord(Head(a)) < Ord(Head(b))
    ELSE TextLess(Tail(a), Tail(b))

\* a < b for two non-missing cells of one column
CellLess(a, b) ==
    IF a.kind = "str" /\ b.kind = "str" THEN TextLess(a.s, b.s)
    ELSE a.n < b.n

\* ------------------------------------------------ modules/missing_imputer
\* Numbers are fixed-point: the n of a numeric cell counts twelfths, so the
\* mean of up to four table entries and the median are exact.
NonMissing(cells) == SelectSeq(cells, LAMBDA c : ~IsNa(c))

\* Series.fillna(v): missing cells become v, the others are kept
FillNa(cells, v) ==
    [k \in 1..Len(cells) |-> IF IsNa(cells[k]) THEN v ELSE cells[k]]

\* Series.mean(): NaN for a column without values
SeriesMean(cells) ==
    LET vals == NonMissing(cells)
    IN  IF vals = <<>> THEN NaN
        ELSE Num(SeqSum([k \in 1..Len(vals) |-> vals[k].n]) \div Len(vals))

\* Series.median(): the middle value, or the mean of the two middle values
SeriesMedian(cells) ==
    LET vals == NonMissing(cells)
        m == Len(vals)
        \* rank[k]: the k-th smallest number of vals
        below(k) == Cardinality({j \in 1..m :
                        vals[j].n < vals[k].n \/ (vals[j].n = vals[k].n /\ j < k)})
        kth(r) == vals[CHOOSE k \in 1..m : below(k) = r - 1].n
    IN  IF m = 0 THEN NaN
        ELSE IF m % 2 = 1 THEN Num(kth((m + 1) \div 2))
        ELSE Num((kth(m \div 2) + kth(m \div 2 + 1)) \div 2)

\* Series.mode()[0]: the smallest of the most frequent values; mode() is
\* empty for a column without values
SeriesMode(cells) ==
    LET vals == NonMissing(cells)
        count(v) == Cardinality({k \in 1..Len(vals) : vals[k] = v})
        top == {v \in Range(vals) : \A w \in Range(vals) : count(w) <= count(v)}
    IN  IF vals = <<>> THEN NaN
        ELSE CHOOSE v \in top : \A w \in top : ~CellLess(w, v)

\* the dtype of a column after fillna(v)
FilledDtype(dtype, cells, v) ==
    IF (\E k \in 1..Len(cells) : IsNa(cells[k])) /\ v.kind = "str"
    THEN "object" ELSE dtype

\* result_df[col].fillna(v, inplace=True): an in-place method on the
\* intermediate result_df[col].  writes says whether the edit reaches
\* result_df: it does while result_df[col] is a view of the column, and it
\* does not under pandas' copy-on-write (the only mode from pandas 3.0 on),
\* where result_df[col] behaves as a copy.  setup.py asks for pandas>=1.3.0.
FillColumn(t, col, v, writes) ==
    IF IsNa(v) \/ ~writes THEN t
    ELSE SetColumn(t, col, FilledDtype(t.dtypes[col], t.data[col], v),
                   FillNa(t.data[col], v))

\* the value a method fills column col with
FillValue(t, col, method, fill_value) ==
    CASE method = "mean" -> SeriesMean(t.data[col])
      [] method = "median" -> SeriesMedian(t.data[col])
      [] method = "mode" -> SeriesMode(t.data[col])
      [] OTHER -> fill_value

\* mean and median fill numeric columns only
FillApplies(t, col, method) ==
    method \in {"mean", "median"} => is_numeric_dtype(t, col)

\* for col in columns: result_df[col].fillna(<value of the method>)
RECURSIVE FillColumns(_, _, _, _, _)
FillColumns(t, columns, method, fill_value, writes) ==
    IF columns = <<>> THEN t
    ELSE LET col == Head(columns)
             t1 == IF FillApplies(t, col, method)
                   THEN FillColumn(t, col, FillValue(t, col, method, fill_value),
                                   writes)
                   ELSE t
         IN  FillColumns(t1, Tail(columns), method, fill_value, writes)

\* KNNImputer(n_neighbors).fit_transform on the numeric target columns, for
\* n_neighbors at least the number of rows: every row with a value is a
\* neighbour, so a missing cell gets the mean of its column.  A column
\* without any value is dropped by the imputer and the assignment of the
\* narrower result fails; so does fitting a table without rows.  The result
\* is assigned with result_df[numeric_cols] = ..., which always writes.
KnnImpute(t, numeric_cols) ==
    IF NRows(t) = 0
        \/ \E k \in 1..Len(numeric_cols) : NonMissing(t.data[numeric_cols[k]]) = <<>>
    THEN Raises("ValueError", Msg("KNNImputer", {}))
    ELSE Returns(FillColumns(t, numeric_cols, "mean", NaN, TRUE))

\* impute_missing(df, columns=None, method="mean", **kwargs); t is the
\* contents of result_df = df.copy(), chained_inplace whether an in-place
\* fill of result_df[col] writes result_df
impute_missing(t, params, chained_inplace) ==
    LET columns == IF "columns" \in DOMAIN params THEN params.columns ELSE t.columns
        method == Get(params, "method", "mean")
        missing_cols == Range(columns) \ ColumnSet(t)
    IN  IF missing_cols # {}
        THEN Raises("ValueError", Msg("Columns not found", missing_cols))
        ELSE CASE method \in {"mean", "median", "mode"} ->
                    Returns(FillColumns(t, columns, method, NaN, chained_inplace))
               [] method = "knn" ->
                    KnnImpute(t, SelectSeq(columns, LAMBDA c : is_numeric_dtype(t, c)))
               [] method = "constant" ->
                    Returns(FillColumns(t, columns, method,
                                        Get(params, "fill_value", Num(0)),
                                        chained_inplace))
               [] OTHER ->
                    Raises("ValueError", Msg("Unknown imputation method", {}))

\* ----------------------------------------------- modules/outlier_detector
\* A threshold is a fraction num/den with den > 0, so that the comparisons
\* of the detector are exact.
Frac(num, den) == [num |-> num, den |-> den]

DefaultIqrThreshold == Frac(3, 2)
DefaultZscoreThreshold == Frac(3, 1)

\* threshold or default: None and 0 give the default
ThresholdOr(params, default) ==
    IF "threshold" \in DOMAIN params /\ params.threshold.num # 0
    THEN params.threshold ELSE default

\* the numbers of the non-missing cells of a column, in increasing order
RECURSIVE SortedNumbers(_)
SortedNumbers(ns) ==
    IF ns = <<>> THEN <<>>
    ELSE LET lo == Min(Range(ns))
             k == CHOOSE j \in 1..Len(ns) : ns[j] = lo
         IN  <<lo>> \o SortedNumbers(SelectAt(ns, [j \in 1..Len(ns) |-> j # k]))

Numbers(cells) ==
    LET vals == NonMissing(cells) IN [k \in 1..Len(vals) |-> vals[k].n]

\* Series.std() == 0: the sample deviation of two or more equal values; the
\* deviation of fewer than two values is NaN, which is not 0
ZeroVariance(cells) ==
    LET ns == Numbers(cells)
    IN  Len(ns) >= 2 /\ \A k \in 1..Len(ns) : ns[k] = ns[1]

\* 4 * Series.quantile(quarters / 4), linear interpolation between the two
\* nearest order statistics; the column has at least one value
Quantile4(cells, quarters) ==
    LET v == SortedNumbers(Numbers(cells))
        pos4 == (Len(v) - 1) * quarters
        lo == pos4 \div 4 + 1
        frac4 == pos4 % 4
    IN  IF frac4 = 0 THEN 4 * v[lo]
        ELSE 4 * v[lo] + frac4 * (v[lo + 1] - v[lo])

\* (col < Q1 - threshold * IQR) | (col > Q3 + threshold * IQR), row by row;
\* every comparison with NaN is False
IqrOutliers(cells, th) ==
    IF NonMissing(cells) = <<>> THEN [k \in 1..Len(cells) |-> FALSE]
    ELSE LET Q1 == Quantile4(cells, 1)
             Q3 == Quantile4(cells, 3)
             IQR == Q3 - Q1
         IN  [k \in 1..Len(cells) |->
                 /\ ~IsNa(cells[k])
                 /\ \/ 4 * th.den * cells[k].n < th.den * Q1 - th.num * IQR
                    \/ 4 * th.den * cells[k].n > th.den * Q3 + th.num * IQR]

\* abs((col - mean) / std) > threshold, row by row, with the sample
\* deviation: (m x - S)^2 (m - 1) den^2 > num^2 sum_i (m x_i - S)^2
ZscoreOutliers(cells, th) ==
    LET ns == Numbers(cells)
        m == Len(ns)
        S == SeqSum(ns)
        SS == SeqSum([k \in 1..m |-> (m * ns[k] - S) * (m * ns[k] - S)])
    IN  [k \in 1..Len(cells) |->
            /\ ~IsNa(cells[k])
            /\ m >= 2
            /\ \/ th.num < 0
               \/ (m * cells[k].n - S) * (m * cells[k].n - S) * (m - 1)
                      * th.den * th.den > th.num * th.num * SS]

RECURSIVE MaskUnion(_, _, _, _)
MaskUnion(t, cols, method, th) ==
    IF cols = <<>> THEN [k \in 1..NRows(t) |-> FALSE]
    ELSE LET rest == MaskUnion(t, Tail(cols), method, th)
             mine == IF method = "iqr" THEN IqrOutliers(t.data[Head(cols)], th)
                     ELSE ZscoreOutliers(t.data[Head(cols)], th)
         IN  [k \in 1..NRows(t) |-> mine[k] \/ rest[k]]

\* IsolationForest / LocalOutlierFactor fit_predict(X) == -1 on the valid
\* columns.  The estimator is a library: flagged is the set of row positions
\* it labels -1.  It rejects an X with a missing value or without rows.
SklearnOutliers(t, cols, flagged) ==
    IF NRows(t) = 0
        \/ \E k \in 1..Len(cols) : \E j \in 1..NRows(t) : IsNa(t.data[cols[k]][j])
    THEN Raises("ValueError", Msg("Input X contains NaN", {}))
    ELSE Returns([k \in 1..NRows(t) |-> k \in flagged])

\* detect_outliers(df, columns, method="iqr", threshold=None,
\* action="remove", **kwargs); t is the contents of result_df = df.copy()
detect_outliers(t, params, flagged) ==
    LET columns == params.columns
        method == Get(params, "method", "iqr")
        action == Get(params, "action", "remove")
        missing_cols == Range(columns) \ ColumnSet(t)
        valid_columns == SelectSeq(columns, LAMBDA c : ~ZeroVariance(t.data[c]))
        mask == CASE method = "iqr" ->
                       Returns(MaskUnion(t, valid_columns, method,
                                         ThresholdOr(params, DefaultIqrThreshold)))
                  [] method = "zscore" ->
                       Returns(MaskUnion(t, valid_columns, method,
                                         ThresholdOr(params, DefaultZscoreThreshold)))
                  [] method \in {"isolation", "lof"} ->
                       SklearnOutliers(t, valid_columns, flagged)
                  [] OTHER ->
                       Raises("ValueError", Msg("Unknown outlier detection method", {}))
    IN  IF missing_cols # {}
        THEN Raises("ValueError", Msg("Columns not found", missing_cols))
        ELSE IF \E k \in 1..Len(columns) : ~is_numeric_dtype(t, columns[k])
        THEN Raises("ValueError", Msg("Column is not numeric",
                 {columns[Min({k \in 1..Len(columns) : ~is_numeric_dtype(t, columns[k])})]}))
        ELSE IF valid_columns = <<>> THEN Returns(t)
        ELSE IF mask.raised THEN mask
        ELSE IF action = "remove"
        THEN Returns(SelectRows(t, [k \in 1..NRows(t) |-> ~mask.value[k]]))
        ELSE IF action = "flag"
        THEN Returns(SetColumn(t, "is_outlier", "bool",
                               [k \in 1..NRows(t) |-> Bool(mask.value[k])]))
        ELSE Raises("ValueError", Msg("Unknown action", {}))

\* ------------------------------------------------- modules/text_normalizer
Whitespace == {" "}
Punctuation == {"!"}

\* str.lower() of one character
LowerChar(ch) == CASE ch = "A" -> "a" [] ch = "B" -> "b" [] OTHER -> ch

RECURSIVE LStrip(_)
LStrip(s) == IF s # <<>> /\ Head(s) \in Whitespace THEN LStrip(Tail(s)) ELSE s

RECURSIVE RStrip(_)
RStrip(s) ==
    IF s # <<>> /\ s[Len(s)] \in Whitespace THEN RStrip(SubSeq(s, 1, Len(s) - 1))
    ELSE s

\* str.strip()
Strip(s) == RStrip(LStrip(s))

\* str.lower()
Lower(s) == [k \in 1..Len(s) |-> LowerChar(s[k])]

\* x.translate(str.maketrans('', '', string.punctuation))
RemovePunct(s) == SelectSeq(s, LAMBDA ch : ch \notin Punctuation)

IsPrefix(p, s) == Len(p) <= Len(s) /\ SubSeq(s, 1, Len(p)) = p

\* str.replace(old, new), left to right without overlap; an empty old puts
\* new before every character and at the end
RECURSIVE Replace(_, _, _)
Replace(s, old, new) ==
    IF old = <<>>
    THEN IF s = <<>> THEN new ELSE new \o <<Head(s)>> \o Replace(Tail(s), old, new)
    ELSE IF s = <<>> THEN <<>>
    ELSE IF IsPrefix(old, s)
    THEN new \o Replace(SubSeq(s, Len(old) + 1, Len(s)), old, new)
    ELSE <<Head(s)>> \o Replace(Tail(s), old, new)

\* for slang, replacement in slang_dict.items(): replace, entry after entry
RECURSIVE ReplaceSlang(_, _)
ReplaceSlang(s, slang_dict) ==
    IF slang_dict = <<>> THEN s
    ELSE ReplaceSlang(Replace(s, Head(slang_dict)[1], Head(slang_dict)[2]),
                      Tail(slang_dict))

\* x.split(): the maximal runs of non-whitespace characters
RECURSIVE Split(_)
Split(s) ==
    LET t == LStrip(s)
        n == IF \E k \in 1..Len(t) : t[k] \in Whitespace
             THEN Min({k \in 1..Len(t) : t[k] \in Whitespace}) - 1
             ELSE Len(t)
    IN  IF t = <<>> THEN <<>>
        ELSE <<SubSeq(t, 1, n)>> \o Split(SubSeq(t, n + 1, Len(t)))

\* ' '.join(words)
RECURSIVE Join(_)
Join(words) ==
    IF words = <<>> THEN <<>>
    ELSE IF Len(words) = 1 THEN Head(words)
    ELSE Head(words) \o <<" ">> \o Join(Tail(words))

\* stopwords.words('english'), the entries over the alphabet of the model
Stopwords == {<<"a">>, <<"a", "n">>}

RemoveStopwords(s) == Join(SelectSeq(Split(s), LAMBDA w : w \notin Stopwords))

\* str.replace(r'\s+', ' ', regex=True)
RECURSIVE CollapseWhitespace(_)
CollapseWhitespace(s) ==
    IF s = <<>> THEN <<>>
    ELSE IF Head(s) \in Whitespace
    THEN <<" ">> \o CollapseWhitespace(LStrip(s))
    ELSE <<Head(s)>> \o CollapseWhitespace(Tail(s))

\* the decimal digits of a natural number
RECURSIVE Digits(_)
Digits(n) ==
    LET d == <<"0", "1", "2", "3", "4", "5", "6", "7", "8", "9">>[(n % 10) + 1]
    IN  IF n < 10 THEN <<d>> ELSE Digits(n \div 10) \o <<d>>

\* astype(str) of one cell, then 'nan' replaced by ''
AsText(c) ==
    LET str == CASE c.kind = "str" -> c.s
                 [] c.kind = "nan" -> <<"n", "a", "n">>
                 [] c.kind = "bool" -> IF c.n = 1 THEN <<"T", "r", "u", "e">>
                                       ELSE <<"F", "a", "l", "s", "e">>
                 [] OTHER -> Digits(c.n)
    IN  IF str = <<"n", "a", "n">> THEN <<>> ELSE str

\* the steps applied to one cell of a target column
NormalizeCell(c, lowercase, remove_punct, remove_stopwords, slang_dict) ==
    LET s0 == Strip(AsText(c))
        s1 == IF lowercase THEN Lower(s0) ELSE s0
        s2 == IF remove_punct THEN RemovePunct(s1) ELSE s1
        s3 == ReplaceSlang(s2, slang_dict)
        s4 == IF remove_stopwords THEN RemoveStopwords(s3) ELSE s3
    IN  Str(Strip(CollapseWhitespace(s4)))

RECURSIVE NormalizeColumns(_, _, _, _, _, _)
NormalizeColumns(t, columns, lowercase, remove_punct, remove_stopwords, slang_dict) ==
    IF columns = <<>> THEN t
    ELSE LET col == Head(columns)
             t1 == SetColumn(t, col, "object",
                      [k \in 1..NRows(t) |->
                          NormalizeCell(t.data[col][k], lowercase, remove_punct,
                                        remove_stopwords, slang_dict)])
         IN  NormalizeColumns(t1, Tail(columns), lowercase, remove_punct,
                              remove_stopwords, slang_dict)

\* normalize_text(df, columns, lowercase=True, remove_punct=True,
\* remove_stopwords=False, slang_dict=None); t is the contents of
\* result_df = df.copy().  nltk is "ok", "missing" (ImportError: stopword
\* removal is switched off) or "no_corpus" (the corpus lookup raises).
normalize_text(t, params, nltk) ==
    LET columns == params.columns
        missing_cols == Range(columns) \ ColumnSet(t)
        remove_stopwords == Get(params, "remove_stopwords", FALSE)
    IN  IF missing_cols # {}
        THEN Raises("ValueError", Msg("Columns not found", missing_cols))
        ELSE IF \E k \in 1..Len(columns) : ~is_text_dtype(t, columns[k])
        THEN Raises("ValueError", Msg("Column is not text type",
                 {columns[Min({k \in 1..Len(columns) : ~is_text_dtype(t, columns[k])})]}))
        ELSE IF remove_stopwords /\ nltk = "no_corpus"
        THEN Raises("LookupError", Msg("Resource stopwords not found", {}))
        ELSE Returns(NormalizeColumns(t, columns,
                        Get(params, "lowercase", TRUE),
                        Get(params, "remove_punct", TRUE),
                        remove_stopwords /\ nltk = "ok",
                        Get(params, "slang_dict", <<>>)))

\* ------------------------------------ plugins/intelligent_text_normalizer
\* A text is a sequence of atoms: single characters, and the fixed phrases
\* of the prompt, each one atom.
Cue == <<"Normalized text:">>

\* the identity of the caller: None, or a record of id, username and role
NoneId == 0
None == [id |-> NoneId, username |-> "", role |-> ""]

format_prompt(text_to_normalize, normalization_rules) ==
    <<"Please normalize the following text based on these rules: '">>
        \o normalization_rules
        \o <<"'.\nOriginal text: '''">>
        \o text_to_normalize
        \o <<"'''\nReturn only the normalized text, with no additional explanation, labels, or markdown formatting.\n">>
        \o Cue

\* cue in full_output
Contains(s, cue) ==
    \E k \in 0..(Len(s) - Len(cue)) : SubSeq(s, k + 1, k + Len(cue)) = cue

\* full_output.split(cue)[-1]
RECURSIVE AfterLast(_, _)
AfterLast(s, cue) ==
    IF ~Contains(s, cue) THEN s
    ELSE LET k == Min({j \in 0..(Len(s) - Len(cue)) :
                          SubSeq(s, j + 1, j + Len(cue)) = cue})
         IN  AfterLast(SubSeq(s, k + Len(cue) + 1, Len(s)), cue)

\* the prefix rule tried before the delimiter rule
parse_llm_output_PrefixFirst(full_output, prompt) ==
    IF IsPrefix(prompt, full_output)
    THEN Strip(SubSeq(full_output, Len(prompt) + 1, Len(full_output)))
    ELSE IF Contains(full_output, Cue) THEN Strip(AfterLast(full_output, Cue))
    ELSE Strip(full_output)

parse_llm_output(full_output, prompt) ==
    IF Contains(full_output, Cue) THEN Strip(AfterLast(full_output, Cue))
    ELSE IF IsPrefix(prompt, full_output)
    THEN Strip(SubSeq(full_output, Len(prompt) + 1, Len(full_output)))
    ELSE Strip(full_output)

\* str(row[col_name])
StrOf(c) ==
    CASE c.kind = "str" -> c.s
      [] c.kind = "nan" -> <<"n", "a", "n">>
      [] c.kind = "bool" -> IF c.n = 1 THEN <<"T", "r", "u", "e">>
                            ELSE <<"F", "a", "l", "s", "e">>
      [] OTHER -> Digits(c.n)

\* llm_pipeline(prompt, ...): the generation capability is a library.  model
\* says what it does with a prompt: "raises" (the call raises), "unexpected"
\* (a result that is not a list with a generated_text), "lowercases" (the
\* prompt followed by the lower-cased text) or "echoes" (the text alone,
\* without prompt and cue); "raises_on_bang" and "unexpected_on_bang" fail
\* in these two ways for a text with a "!" and lower-case any other.
Generate(model, prompt, text) ==
    CASE model = "raises" \/ (model = "raises_on_bang" /\ "!" \in Range(text)) ->
             Raises("RuntimeError", Msg("LLM inference failed", {}))
      [] model = "unexpected" \/ (model = "unexpected_on_bang" /\ "!" \in Range(text)) ->
             Returns(<<>>)
      [] model \in {"raises_on_bang", "unexpected_on_bang"} ->
             Returns(<<prompt \o <<" ">> \o Lower(text)>>)
      [] model = "lowercases" -> Returns(<<prompt \o <<" ">> \o Lower(text)>>)
      [] OTHER -> Returns(<<text \o <<" ">> >>)

\* the row loop writing '' into the cell whose inference failed
LlmCell_FailureBlanks(c, normalization_rules, model) ==
    LET text_to_normalize == StrOf(c)
        prompt == format_prompt(text_to_normalize, normalization_rules)
        llm_output == Generate(model, prompt, text_to_normalize)
    IN  IF Strip(text_to_normalize) = <<>> THEN c
        ELSE IF llm_output.raised THEN Str(<<>>)
        ELSE IF llm_output.value = <<>> THEN Str(<<>>)
        ELSE Str(parse_llm_output(llm_output.value[1], prompt))

\* the body of the row loop for the cell c: the cell afterwards
LlmCell(c, normalization_rules, model) ==
    LET text_to_normalize == StrOf(c)
        prompt == format_prompt(text_to_normalize, normalization_rules)
        llm_output == Generate(model, prompt, text_to_normalize)
    IN  IF Strip(text_to_normalize) = <<>> THEN c
        ELSE IF llm_output.raised THEN c
        ELSE IF llm_output.value = <<>> THEN c
        ELSE Str(parse_llm_output(llm_output.value[1], prompt))

\* for col_name in columns: a column the table lacks is skipped
RECURSIVE LlmColumns(_, _, _, _)
LlmColumns(t, columns, normalization_rules, model) ==
    IF columns = <<>> THEN t
    ELSE LET col == Head(columns)
             cells == [k \in 1..NRows(t) |->
                          LlmCell(t.data[col][k], normalization_rules, model)]
             t1 == IF col \notin ColumnSet(t) THEN t
                   ELSE SetColumn(t, col,
                            IF cells # t.data[col] THEN "object" ELSE t.dtypes[col],
                            cells)
         IN  LlmColumns(t1, Tail(columns), normalization_rules, model)

\* the audit entry a call of the plugin writes
PluginAuditEntry(current_user, params) ==
    [action_type |-> "PLUGIN_LLM_NORMALIZER_USED",
     outcome |-> "SUCCESS",
     user_id |-> IF current_user # None THEN current_user.id ELSE NoneId,
     username |-> IF current_user # None THEN current_user.username ELSE "System",
     details |-> [columns_processed |-> params.columns,
                  normalization_rules_applied |-> params.normalization_rules]]

\* user_id = current_user.get('id') without the test for None
process_RequiresUser(t, current_user, params, model) ==
    LET columns == Get(params, "columns", <<>>)
        normalization_rules == Get(params, "normalization_rules", <<>>)
    IN  IF current_user = None
        THEN Raises("AttributeError", Msg("'NoneType' object has no attribute 'get'", {}))
        ELSE IF columns = <<>>
        THEN Raises("ValueError", Msg("The 'columns' parameter must be provided", {}))
        ELSE IF normalization_rules = <<>>
        THEN [Returns(t) EXCEPT !.same = TRUE]
        ELSE IF model = "None"
        THEN Returns(t)
        ELSE [Returns(LlmColumns(t, columns, normalization_rules, model))
                 EXCEPT !.events = <<PluginAuditEntry(current_user, params)>>]

\* the plugin refusing to work without the generation capability
process_FailsWithoutModel(t, current_user, params, model) ==
    LET columns == Get(params, "columns", <<>>)
        normalization_rules == Get(params, "normalization_rules", <<>>)
    IN  IF columns = <<>>
        THEN Raises("ValueError", Msg("The 'columns' parameter must be provided", {}))
        ELSE IF normalization_rules = <<>>
        THEN [Returns(t) EXCEPT !.same = TRUE]
        ELSE IF model = "None"
        THEN Raises("RuntimeError", Msg("LLM model is not available", {}))
        ELSE [Returns(LlmColumns(t, columns, normalization_rules, model))
                 EXCEPT !.events = <<PluginAuditEntry(current_user, params)>>]

\* process(df, current_user=None, **params).  model is "None" when the
\* generation capability is not available (MODEL_PATH_CONFIGURED is False
\* and llm_pipeline is None).
process(t, current_user, params, model) ==
    LET columns == Get(params, "columns", <<>>)
        normalization_rules == Get(params, "normalization_rules", <<>>)
    IN  IF columns = <<>>
        THEN Raises("ValueError", Msg("The 'columns' parameter must be provided", {}))
        ELSE IF normalization_rules = <<>>
        THEN [Returns(t) EXCEPT !.same = TRUE]
        ELSE IF model = "None"
        THEN Returns(t)
        ELSE [Returns(LlmColumns(t, columns, normalization_rules, model))
                 EXCEPT !.events = <<PluginAuditEntry(current_user, params)>>]

\* --------------------------------------------------- calling a transform
\* The parameters of each callable: the names it binds by keyword, the ones
\* without a default, and whether it takes **kwargs.
Signature(module_func) ==
    CASE module_func = "impute_missing" ->
            [named |-> {"df", "columns", "method"}, required |-> {}, varkw |-> TRUE]
      [] module_func = "normalize_text" ->
            [named |-> {"df", "columns", "lowercase", "remove_punct",
                        "remove_stopwords", "slang_dict"},
             required |-> {"columns"}, varkw |-> FALSE]
      [] module_func = "detect_outliers" ->
            [named |-> {"df", "columns", "method", "threshold", "action"},
             required |-> {"columns"}, varkw |-> TRUE]
      [] OTHER ->
            [named |-> {"df", "current_user"}, required |-> {}, varkw |-> TRUE]

\* f(df, **keywords): the TypeError of the call, or no error.  df is bound
\* by position, so a keyword df is a second value for it; the caller cannot
\* give one keyword twice.
BindError(module_func, explicit, params) ==
    LET sig == Signature(module_func)
        keywords == explicit \cup DOMAIN params
    IN  IF explicit \cap DOMAIN params # {}
        THEN Msg("got multiple values for keyword argument", explicit \cap DOMAIN params)
        ELSE IF "df" \in keywords
        THEN Msg("got multiple values for argument", {"df"})
        ELSE IF ~sig.varkw /\ keywords \ sig.named # {}
        THEN Msg("got an unexpected keyword argument", keywords \ sig.named)
        ELSE IF sig.required \ keywords # {}
        THEN Msg("missing required positional argument", sig.required \ keywords)
        ELSE Msg("", {})

\* df['tmp'] = 0: what the in-place callables do to the table they are given
InPlaceEdit(t) == SetColumn(t, "tmp", "int64", [k \in 1..NRows(t) |-> Num(0)])

\* module_func(df, <the keywords of explicit>, **params) on the heap h, df
\* being the reference ref.  env holds the libraries the transforms use.
\* The result: raised/exc/msg, the heap afterwards, the reference returned
\* (ret) and the audit entries written.
\* Besides the four transforms of the repository a step may name any
\* callable: "always_raises" raises at once, "mutate_then_raise" edits the
\* table it is given and raises, "mutate_in_place" edits it and returns it.
Apply(module_func, explicit, h, ref, current_user, params, env) ==
    LET \* the outcome of the call for the binding error bind, the outcome out
        \* of the body and the heap edited by an in-place callable
        Outcome(bind, out, edited) ==
            IF bind.text # ""
            THEN [raised |-> TRUE, exc |-> "TypeError", msg |-> bind,
                  heap |-> h, ret |-> ref, events |-> <<>>]
            ELSE IF out.raised
            THEN [raised |-> TRUE, exc |-> out.exc, msg |-> out.msg,
                  heap |-> edited, ret |-> ref, events |-> out.events]
            ELSE IF out.same
            THEN [raised |-> FALSE, exc |-> "", msg |-> out.msg,
                  heap |-> edited, ret |-> ref, events |-> out.events]
            ELSE [raised |-> FALSE, exc |-> "", msg |-> out.msg,
                  heap |-> Alloc(h, out.value), ret |-> NewRef(h),
                  events |-> out.events]
    IN  Outcome(
            BindError(module_func, explicit, params),
            \* the transforms of the repository work on df.copy()
            CASE module_func = "impute_missing" ->
                     impute_missing(h[ref], params, env.chained_inplace)
              [] module_func = "normalize_text" -> normalize_text(h[ref], params, env.nltk)
              [] module_func = "detect_outliers" ->
                     detect_outliers(h[ref], params, env.flagged)
              [] module_func = "process" ->
                     process(h[ref], current_user, params, env.llm_pipeline)
              [] module_func = "mutate_in_place" ->
                     [Returns(InPlaceEdit(h[ref])) EXCEPT !.same = TRUE]
              [] OTHER -> Raises("ValueError", Msg("transform failed", {})),
            IF module_func \in {"mutate_then_raise", "mutate_in_place"}
            THEN Store(h, ref, InPlaceEdit(h[ref])) ELSE h)

\* module_func(result_df, current_user=current_user, **step.params)
Invoke(module_func, h, ref, current_user, params, env) ==
    Apply(module_func, {"current_user"}, h, ref, current_user, params, env)

\* ------------------------------------------------ app/core/orchestrator
\* ModuleConfig
ModuleConfig(name, module_func, params, enabled) ==
    [name |-> name, module_func |-> module_func, params |-> params,
     enabled |-> enabled]

\* Report
Report(steps_completed, errors, stats) ==
    [steps_completed |-> steps_completed, errors |-> errors, stats |-> stats]

VARIABLES
    heap,             \* the DataFrame objects of the process, by reference
    df,               \* df[r]: the reference of the caller's table
    steps,            \* steps[r]: the list of ModuleConfig
    stop_on_error,    \* stop_on_error[r]: Orchestrator.stop_on_error
    current_user,     \* current_user[r]: None or the identity
    pc,               \* pc[r]: "idle", "called", "loop", "returned", or
                      \* "raised" when an exception left run_pipeline;
                      \* for a transform called without the orchestrator
                      \* "direct", then "done" or "failed"
    i,                \* i[r]: the position of the for loop in steps[r]
    result_df,        \* result_df[r]: the reference of the working table
    completed_steps,  \* completed_steps[r]
    errors,           \* errors[r]
    stats,            \* stats[r]
    report,           \* report[r]: the Report returned with result_df[r]
    calls,            \* calls[r]: the invocations of transforms in order,
                      \* each the position of its step and whether it raised
    input,            \* input[r]: the contents of the caller's table at the call
    audit_entries,    \* the rows of the audit table, oldest first
    env,              \* the libraries and the audit table: llm_pipeline,
                      \* nltk, flagged, chained_inplace, audit, bcrypt
    fs,               \* the provider directories the registry scans
    modules,          \* ModuleRegistry.modules
    scan,             \* the position of ModuleRegistry.__init__
    listed,           \* the mappings list_modules returned, held by callers
    got,              \* the last get_module call: its name and its result
    users,            \* the users table of user_data.db: its rows, and the
                      \* last id AUTOINCREMENT gave
    reply,            \* the last call of user_management: its arguments, what
                      \* it returned or raised, and the audit event it logged
    passwords,        \* passwords[u]: the password set last for the username u
                      \* by a call that returned True, while u exists
    applied           \* a call of parse_llm_output, build_steps_from_config
                      \* or parse_params: its arguments and what it returned

pipelineVars == <<heap, df, steps, stop_on_error, current_user, pc, i,
                  result_df, completed_steps, errors, stats, report, calls,
                  input, audit_entries, env>>

registryVars == <<fs, modules, scan, listed, got>>

storeVars == <<users, reply, passwords>>

vars == <<pipelineVars, registryVars, storeVars, applied>>

\* the references the runs hold, run r holding ref as its working table
Roots(r, ref) ==
    {df[q] : q \in Runs} \cup {IF q = r THEN ref ELSE result_df[q] : q \in Runs}

\* what can go wrong in a call of log_audit_event: sqlite3.connect fails,
\* the INSERT or the commit fails, json.dumps(details) raises TypeError
AuditFaults == {"none", "db_unavailable", "write_error", "not_serializable"}

\* the faults the audit table of the environment can show
Faults(e) == IF e.audit = "ok" THEN {"none"} ELSE AuditFaults

\* except sqlite3.Error only
AuditCatches_SqliteOnly(fault) == fault \in {"db_unavailable", "write_error"}

\* except sqlite3.Error, except json.JSONDecodeError, except Exception
AuditCatches(fault) ==
    \/ fault \in {"db_unavailable", "write_error"}
    \/ fault = "not_serializable"

\* log_audit_event(action_type, outcome, user_id, username, details) with
\* the audit table holding entries: the table afterwards, and whether the
\* call raised
log_audit_event(entries, fault, action_type, outcome, user_id, username, details) ==
    IF fault = "none"
    THEN [raised |-> FALSE,
          entries |-> Append(entries, [action_type |-> action_type, outcome |-> outcome,
                                       user_id |-> user_id, username |-> username,
                                       details |-> details])]
    ELSE [raised |-> ~AuditCatches(fault), entries |-> entries]

\* the audit table after the log_audit_event calls a transform made
Written(entries, events, fault) ==
    IF events = <<>> THEN entries
    ELSE log_audit_event(entries, fault, events[1].action_type, events[1].outcome,
                         events[1].user_id, events[1].username,
                         events[1].details).entries

\* pipeline_outcome = 'SUCCESS' whatever the errors
pipeline_outcome_AlwaysSuccess(errs) == "SUCCESS"

\* pipeline_outcome = 'SUCCESS' if not errors else 'FAILURE'
pipeline_outcome(errs) == IF errs = <<>> THEN "SUCCESS" ELSE "FAILURE"

user_id(r) == IF current_user[r] # None THEN current_user[r].id ELSE NoneId
username(r) == IF current_user[r] # None THEN current_user[r].username ELSE "System"

\* [{"module": s.name, "params": list(s.params.keys())} for s in steps if s.enabled]
pipeline_config_summary(r) ==
    LET enabled == SelectSeq(steps[r], LAMBDA s : s.enabled)
    IN  [k \in 1..Len(enabled) |->
            [module |-> enabled[k].name, params |-> DOMAIN enabled[k].params]]

\* run_pipeline up to the loop: the start event, the copy, the empty report
Start(r) ==
    /\ pc[r] = "called"
    /\ \E fault \in Faults(env) :
       \E logged \in {log_audit_event(audit_entries, fault,
                           "PIPELINE_EXECUTION_START", "INFO", user_id(r), username(r),
                           [pipeline_configuration |-> pipeline_config_summary(r),
                            input_rows |-> NRows(heap[df[r]])])} :
           /\ audit_entries' = logged.entries
           /\ IF logged.raised
              THEN /\ pc' = [pc EXCEPT ![r] = "raised"]
                   /\ UNCHANGED <<heap, result_df, completed_steps, errors, stats, i>>
              ELSE /\ heap' = Copy(heap, df[r]).heap
                   /\ result_df' = [result_df EXCEPT ![r] = Copy(heap, df[r]).ref]
                   /\ completed_steps' = [completed_steps EXCEPT ![r] = <<>>]
                   /\ errors' = [errors EXCEPT ![r] = <<>>]
                   /\ stats' = [stats EXCEPT ![r] = <<>>]
                   /\ i' = [i EXCEPT ![r] = 1]
                   /\ pc' = [pc EXCEPT ![r] = "loop"]
    /\ UNCHANGED <<df, steps, stop_on_error, current_user, report, calls, input, env>>
    /\ UNCHANGED <<registryVars, storeVars, applied>>

\* except ValueError: the errors of the parameter checks only
Catches_ValueErrorOnly(exc) == exc = "ValueError"

\* except Exception: the exception types the handler catches
Catches(exc) ==
    exc \in {"TypeError", "ValueError", "RuntimeError", "LookupError",
             "AttributeError", "KeyError"}

\* the entry of errors for a failed step
error_info(step, call) ==
    [module |-> step.name, error |-> call.msg,
     traceback |-> <<"Traceback (most recent call last):", call.exc>>]

\* try: the call of the transform of the step at i[r] and the success
\* branch; except Exception: the entry in errors and the break
CallStep(r) ==
    /\ \E step \in {steps[r][i[r]]}, fault \in Faults(env) :
       \E call \in {Invoke(step.module_func, heap, result_df[r],
                            current_user[r], step.params, env)} :
           /\ calls' = [calls EXCEPT ![r] =
                           Append(calls[r], [step |-> i[r], raised |-> call.raised])]
           /\ audit_entries' = Written(audit_entries, call.events, fault)
           /\ IF ~call.raised
              THEN /\ result_df' = [result_df EXCEPT ![r] = call.ret]
                   /\ heap' = Collect(call.heap, Roots(r, call.ret))
                   /\ completed_steps' = [completed_steps EXCEPT
                                             ![r] = Append(completed_steps[r], step.name)]
                   /\ stats' = [stats EXCEPT ![r] =
                                   [n \in DOMAIN stats[r] \cup {step.name} |->
                                       [status |-> "success"]]]
                   /\ i' = [i EXCEPT ![r] = i[r] + 1]
                   /\ UNCHANGED <<errors, pc>>
              ELSE IF Catches(call.exc)
              THEN /\ errors' = [errors EXCEPT
                                    ![r] = Append(errors[r], error_info(step, call))]
                   /\ heap' = Collect(call.heap, Roots(r, result_df[r]))
                   /\ i' = [i EXCEPT ![r] = IF stop_on_error[r]
                                            THEN Len(steps[r]) + 1 ELSE i[r] + 1]
                   /\ UNCHANGED <<result_df, completed_steps, stats, pc>>
              ELSE /\ pc' = [pc EXCEPT ![r] = "raised"]
                   /\ heap' = Collect(call.heap, Roots(r, df[r]))
                   /\ UNCHANGED <<result_df, completed_steps, stats, errors, i>>
    /\ UNCHANGED <<df, steps, stop_on_error, current_user, report, input, env>>
    /\ UNCHANGED <<registryVars, storeVars, applied>>

\* the loop body without the test of step.enabled
SkipStep_IgnoresEnabled(r) ==
    /\ pc[r] = "loop"
    /\ i[r] <= Len(steps[r])
    /\ ~steps[r][i[r]].enabled
    /\ CallStep(r)

\* for step in steps: if not step.enabled: continue
SkipStep(r) ==
    /\ pc[r] = "loop"
    /\ i[r] <= Len(steps[r])
    /\ ~steps[r][i[r]].enabled
    /\ i' = [i EXCEPT ![r] = i[r] + 1]
    /\ UNCHANGED <<heap, df, steps, stop_on_error, current_user, pc, result_df,
                   completed_steps, errors, stats, report, calls, input,
                   audit_entries, env>>
    /\ UNCHANGED <<registryVars, storeVars, applied>>

\* one pass of the loop body for an enabled step
ExecuteStep(r) ==
    /\ pc[r] = "loop"
    /\ i[r] <= Len(steps[r])
    /\ steps[r][i[r]].enabled
    /\ CallStep(r)

\* after the loop: the Report, the end event, the return
Finish(r) ==
    /\ pc[r] = "loop"
    /\ i[r] > Len(steps[r])
    /\ \E fault \in Faults(env) :
       \E logged \in {log_audit_event(audit_entries, fault,
                           "PIPELINE_EXECUTION_END", pipeline_outcome(errors[r]),
                           user_id(r), username(r),
                           [steps_completed |-> completed_steps[r],
                            errors_count |-> Len(errors[r]),
                            output_rows |-> NRows(heap[result_df[r]])])} :
           /\ audit_entries' = logged.entries
           /\ IF logged.raised
              THEN /\ pc' = [pc EXCEPT ![r] = "raised"]
                   /\ UNCHANGED report
              ELSE /\ report' = [report EXCEPT ![r] =
                                     Report(completed_steps[r], errors[r], stats[r])]
                   /\ pc' = [pc EXCEPT ![r] = "returned"]
    /\ UNCHANGED <<heap, df, steps, stop_on_error, current_user, i, result_df,
                   completed_steps, errors, stats, calls, input, env>>
    /\ UNCHANGED <<registryVars, storeVars, applied>>

\* a caller calls the transform of its step itself, module_func(df, **params),
\* as the tests of the transforms do: df[r] is the table it hands over,
\* result_df[r] the table it gets back, errors[r] the exception it gets
CallTransform(r) ==
    /\ pc[r] = "direct"
    /\ \E step \in {steps[r][1]}, fault \in Faults(env) :
       \E call \in {Apply(step.module_func, {}, heap, df[r], None,
                           step.params, env)} :
           /\ calls' = [calls EXCEPT ![r] =
                           Append(calls[r], [step |-> 1, raised |-> call.raised])]
           /\ audit_entries' = Written(audit_entries, call.events, fault)
           /\ IF ~call.raised
              THEN /\ result_df' = [result_df EXCEPT ![r] = call.ret]
                   /\ heap' = Collect(call.heap, Roots(r, call.ret))
                   /\ pc' = [pc EXCEPT ![r] = "done"]
                   /\ UNCHANGED errors
              ELSE /\ errors' = [errors EXCEPT
                                    ![r] = Append(errors[r], error_info(step, call))]
                   /\ heap' = Collect(call.heap, Roots(r, df[r]))
                   /\ pc' = [pc EXCEPT ![r] = "failed"]
                   /\ UNCHANGED result_df
    /\ UNCHANGED <<df, steps, stop_on_error, current_user, i, completed_steps,
                   stats, report, input, env>>
    /\ UNCHANGED <<registryVars, storeVars, applied>>

\* ------------------------------------------------ app/core/module_registry
\* A provider directory holds items.  An item has a name (its characters),
\* is a directory or a file, and load says what
\* importlib.import_module(f"{package_prefix}.{name}") does for it:
\* "process" (a module with a process attribute), "no_process" (a module
\* without one), "ImportError" (the import raises ImportError or its
\* subclass ModuleNotFoundError) or "SyntaxError" (the import raises an
\* exception that is not an ImportError: the provider's code does not
\* compile, or raises while it is executed).
Item(name, is_dir, load) == [name |-> name, is_dir |-> is_dir, load |-> load]

\* module.process of the provider name of a package
Process(package_prefix, name) == [package |-> package_prefix, name |-> name]

\* the result of dict.get for a key the dict lacks
Absent == [package |-> "", name |-> <<>>]

\* the dict without entries
EmptyDict == [n \in {} |-> Absent]

\* d[key] = value
SetItem(d, key, value) ==
    [n \in DOMAIN d \cup {key} |-> IF n = key THEN value ELSE d[n]]

\* del d[key]
DelItem(d, key) == [n \in DOMAIN d \ {key} |-> d[n]]

\* item.name.startswith("_")
StartsWithUnderscore(name) == name # <<>> /\ name[1] = "_"

\* except ImportError
ImportCatches(load) == load = "ImportError"

\* hasattr(module, "process") taken for granted
HasProcess_Always(load) == TRUE

\* hasattr(module, "process")
HasProcess(load) == load = "process"

\* _scan_directory(path, package_prefix) on the dict registered, items being
\* path.iterdir() in its order: the dict afterwards, or the exception that
\* left the loop
RECURSIVE _scan_directory(_, _, _)
_scan_directory(registered, items, package_prefix) ==
    IF items = <<>> THEN [raised |-> FALSE, modules |-> registered]
    ELSE LET item == Head(items)
             module_name == item.name
         IN  IF ~(item.is_dir /\ ~StartsWithUnderscore(item.name))
             THEN _scan_directory(registered, Tail(items), package_prefix)
             ELSE IF item.load \in {"process", "no_process"}
             THEN _scan_directory(
                      IF HasProcess(item.load)
                      THEN SetItem(registered, module_name,
                                   Process(package_prefix, module_name))
                      ELSE registered,
                      Tail(items), package_prefix)
             ELSE IF ImportCatches(item.load)
             THEN _scan_directory(registered, Tail(items), package_prefix)
             ELSE [raised |-> TRUE, modules |-> registered]

\* _scan_modules(): the built-in modules, then the plugins if the directory
\* exists
_scan_modules(registered, files) ==
    LET Plugins(built_in) ==
            IF built_in.raised \/ ~files.plugins_exists THEN built_in
            ELSE _scan_directory(built_in.modules, files.plugins, "plugins")
    IN  Plugins(_scan_directory(registered, files.modules, "modules"))

\* ModuleRegistry(): self.modules = {} and the scan.  An exception of the
\* scan leaves the constructor, and no registry comes to exist.
Construct ==
    /\ scan = "new"
    /\ \E scanned \in {_scan_modules(EmptyDict, fs)} :
          /\ modules' = scanned.modules
          /\ scan' = IF scanned.raised THEN "raised" ELSE "ready"
    /\ UNCHANGED <<fs, listed, got>>
    /\ UNCHANGED <<pipelineVars, storeVars, applied>>

\* self.modules.get(name)
get_module(registered, name) ==
    IF name \in DOMAIN registered THEN registered[name] ELSE Absent

\* a caller asks for the provider of a name
GetModule(name) ==
    /\ scan = "ready"
    /\ got' = [called |-> TRUE, name |-> name, value |-> get_module(modules, name)]
    /\ UNCHANGED <<fs, modules, scan, listed>>
    /\ UNCHANGED <<pipelineVars, storeVars, applied>>

\* return self.modules: the registry's own dict
list_modules_NoCopy(registered) == [alias |-> TRUE, map |-> registered]

\* return self.modules.copy(): a dict of the caller's own; alias says
\* whether the object returned is self.modules itself
list_modules(registered) == [alias |-> FALSE, map |-> registered]

\* a caller asks for the mapping and keeps it
ListModules ==
    /\ scan = "ready"
    /\ Len(listed) < MaxListed
    /\ listed' = Append(listed, list_modules(modules))
    /\ UNCHANGED <<fs, modules, scan, got>>
    /\ UNCHANGED <<pipelineVars, storeVars, applied>>

\* the dict the caller reads through the k-th mapping it holds
Held(k) == IF listed[k].alias THEN modules ELSE listed[k].map

\* what a caller does to a mapping it holds: an addition, a replacement or
\* a removal
Edited(d, edit) ==
    IF edit.op = "del" THEN DelItem(d, edit.key)
    ELSE SetItem(d, edit.key, Process("caller", edit.key))

\* a caller edits the k-th mapping it holds
CallerEdit(k, edit) ==
    /\ scan = "ready"
    /\ k \in 1..Len(listed)
    /\ edit.op = "del" => edit.key \in DOMAIN Held(k)
    /\ IF listed[k].alias
       THEN /\ modules' = Edited(modules, edit)
            /\ UNCHANGED listed
       ELSE /\ listed' = [listed EXCEPT ![k].map = Edited(listed[k].map, edit)]
            /\ UNCHANGED modules
    /\ UNCHANGED <<fs, scan, got>>
    /\ UNCHANGED <<pipelineVars, storeVars, applied>>

\* ------------------------------------------------------------------ inputs
\* The rows a caller's table is made of: a number (in twelfths) in the
\* float64 column num, a text or NaN in the object column txt.
RowChoices ==
    { <<Num(12), Str(<<"A", "!">>)>>,
      <<Num(36), NaN>> }

TableOf(rows) ==
    DataFrame(<<"num", "txt">>,
              [k \in 1..Len(rows) |-> k - 1],
              [c \in {"num", "txt"} |-> IF c = "num" THEN "float64" ELSE "object"],
              [c \in {"num", "txt"} |->
                  [k \in 1..Len(rows) |-> IF c = "num" THEN rows[k][1] ELSE rows[k][2]]])

Tables == {TableOf(rows) : rows \in UNION {[1..n -> RowChoices] : n \in 0..MaxRows}}

NoParams == [k \in {} |-> k]

Rules == <<"lowercase">>

\* the transforms of the repository with parameters that fit every table of
\* Tables, named as cli.build_steps_from_config and the registry name them
ValidSteps ==
    { ModuleConfig("missing_imputer", "impute_missing",
                   [columns |-> <<"txt">>, method |-> "mode"], TRUE),
      ModuleConfig("text_normalizer", "normalize_text",
                   [columns |-> <<"txt">>, lowercase |-> TRUE, remove_punct |-> TRUE], TRUE),
      ModuleConfig("outlier_detector", "detect_outliers",
                   [columns |-> <<"num">>, method |-> "iqr",
                    threshold |-> Frac(1, 4), action |-> "remove"], TRUE),
      ModuleConfig("outlier_detector", "detect_outliers",
                   [columns |-> <<"num">>, method |-> "zscore", action |-> "flag"], TRUE),
      ModuleConfig("intelligent_text_normalizer", "process",
                   [columns |-> <<"txt">>, normalization_rules |-> Rules], TRUE) }

\* a step that fails (test_error_handling), callables that edit the table
\* they are given, and a disabled step
OtherSteps ==
    { ModuleConfig("missing_imputer", "impute_missing",
                   [columns |-> <<"nonexistent_column">>, method |-> "mean"], TRUE),
      ModuleConfig("custom", "mutate_then_raise", NoParams, TRUE),
      ModuleConfig("custom", "mutate_in_place", NoParams, TRUE),
      ModuleConfig("custom", "mutate_in_place", NoParams, FALSE) }

StepChoices == ValidSteps \cup OtherSteps

StepLists(choices) == UNION {[1..n -> choices] : n \in 0..MaxSteps}

alice == [id |-> 1, username |-> "alice", role |-> "admin"]
bob == [id |-> 2, username |-> "bob", role |-> "user"]

Envs == {[llm_pipeline |-> m, nltk |-> "ok", flagged |-> {},
          chained_inplace |-> w, audit |-> "ok"] :
            m \in {"None", "lowercases"}, w \in BOOLEAN}

\* no get_module call yet
NoCall == [called |-> FALSE, name |-> <<>>, value |-> Absent]

\* provider directories without items
NoFiles == [modules |-> <<>>, plugins |-> <<>>, plugins_exists |-> FALSE]

\* no registry is constructed
NoRegistry ==
    /\ fs = NoFiles
    /\ modules = EmptyDict
    /\ scan = "new"
    /\ listed = <<>>
    /\ got = NoCall

\* no call of user_management yet
NoReply == [op |-> "", username |-> "", password |-> <<>>, value |-> "",
            user |-> [id |-> 0, username |-> "", role |-> ""], event |-> ""]

\* no call of a function of the command line or of the plugin's parser
NotApplied == [func |-> "", args |-> <<>>, returned |-> FALSE, value |-> <<>>]

\* the users table as init_db creates it, and no call yet
NoUsers ==
    /\ users = [rows |-> <<>>, seq |-> 0]
    /\ reply = NoReply
    /\ passwords = [u \in {} |-> <<>>]

NoReport == Report(<<>>, <<>>, <<>>)

\* the state in which the callers of the runs of called are at the call at
\* ("called": of run_pipeline; "direct": of the transform of their one
\* step) with the tables (the object ref[r] holding table[r]), step lists,
\* flags and identities given, the other runs never called
Entered(called, at, ref, table, list, stop, user) ==
    /\ heap = [id \in {ref[r] : r \in called} |->
                  table[CHOOSE r \in called : ref[r] = id]]
    /\ df = ref
    /\ steps = [r \in Runs |-> IF r \in called THEN list[r] ELSE <<>>]
    /\ stop_on_error = [r \in Runs |-> r \in called /\ stop[r]]
    /\ current_user = [r \in Runs |-> IF r \in called THEN user[r] ELSE None]
    /\ pc = [r \in Runs |-> IF r \in called THEN at ELSE "idle"]
    /\ i = [r \in Runs |-> 1]
    /\ result_df = ref
    /\ completed_steps = [r \in Runs |-> <<>>]
    /\ errors = [r \in Runs |-> <<>>]
    /\ stats = [r \in Runs |-> <<>>]
    /\ report = [r \in Runs |-> NoReport]
    /\ calls = [r \in Runs |-> <<>>]
    /\ input = [r \in Runs |-> IF r \in called THEN table[r] ELSE NoFrame]
    /\ audit_entries = <<>>

\* one call of run_pipeline
Init ==
    /\ env \in Envs
    /\ NoRegistry
    /\ NoUsers
    /\ applied = NotApplied
    /\ \E t \in Tables, l \in StepLists(StepChoices), s \in BOOLEAN, u \in {None, alice} :
          Entered({1}, "called", [r \in Runs |-> 0], [r \in Runs |-> t], [r \in Runs |-> l],
                  [r \in Runs |-> s], [r \in Runs |-> u])

Next == \E r \in Runs : Start(r) \/ SkipStep(r) \/ ExecuteStep(r) \/ Finish(r)

Spec == Init /\ [][Next]_vars

\* ------------------------------------------------------------------ claims
Started(r) == pc[r] \in {"loop", "returned"}

\* the table a transform returns for a table with the contents t
Transformed(t, step, user) ==
    LET call == Invoke(step.module_func, [id \in {0} |-> t], 0, user, step.params, env)
    IN  call.heap[call.ret]

RECURSIVE ApplyAll(_, _, _)
ApplyAll(t, todo, user) ==
    IF todo = <<>> THEN t
    ELSE ApplyAll(Transformed(t, Head(todo), user), Tail(todo), user)

\* the steps of run r that succeeded so far, in the order of their calls
Succeeded(r) ==
    LET ok == SelectSeq(calls[r], LAMBDA c : ~c.raised)
    IN  [k \in 1..Len(ok) |-> steps[r][ok[k].step]]

\* the steps of run r that failed so far, in the order of their calls
Failed(r) ==
    LET bad == SelectSeq(calls[r], LAMBDA c : c.raised)
    IN  [k \in 1..Len(bad) |-> steps[r][bad[k].step]]

\* the positions of the enabled steps of run r, in declaration order
EnabledPositions(r) == SortedSeq({k \in 1..Len(steps[r]) : steps[r][k].enabled})

WorkingTable(r) == heap[result_df[r]]

\* C1: the working table, and so the table returned, is the result of
\* applying the transforms of the steps that succeeded, in declaration
\* order, to a copy of the input table; a failed step contributes nothing.
C1_OnlySuccessfulStepsShape ==
    \A r \in Runs :
        Started(r) => WorkingTable(r) = ApplyAll(input[r], Succeeded(r), current_user[r])

\* C2: an exception of a transform never leaves run_pipeline; every failed
\* call is recorded in errors, in order, with the step name, the message
\* and a trace.
C2_StepFailuresRecorded ==
    \A r \in Runs :
        /\ pc[r] # "raised"
        /\ Started(r) =>
              /\ Len(errors[r]) = Len(Failed(r))
              /\ \A k \in 1..Len(errors[r]) :
                    /\ errors[r][k].module = Failed(r)[k].name
                    /\ errors[r][k].error.text # ""
                    /\ Len(errors[r][k].traceback) = 2
                    /\ errors[r][k].traceback[2] # ""
        /\ pc[r] = "returned" => report[r].errors = errors[r]

C2_Witness ==
    /\ pc[1] = "returned"
    /\ Len(report[1].errors) = 2
    /\ report[1].errors[1].traceback[2] = "TypeError"
    /\ report[1].errors[2].traceback[2] = "ValueError"

\* C3: a run of one enabled step whose transform raises, without
\* stop_on_error, returns a table equal to the input, no completed step and
\* exactly one error, which names the step.
C3_SingleFailingStep ==
    \A r \in Runs :
        (/\ pc[r] = "returned"
         /\ ~stop_on_error[r]
         /\ Len(steps[r]) = 1
         /\ steps[r][1].enabled
         /\ calls[r] = <<[step |-> 1, raised |-> TRUE]>>)
        => /\ WorkingTable(r) = input[r]
           /\ report[r].steps_completed = <<>>
           /\ Len(report[r].errors) = 1
           /\ report[r].errors[1].module = steps[r][1].name

\* C4: a run without steps returns a table equal to the input and a report
\* whose steps_completed, errors and stats are empty.
C4_EmptyPipeline ==
    \A r \in Runs :
        (pc[r] = "returned" /\ steps[r] = <<>>)
        => /\ WorkingTable(r) = input[r]
           /\ result_df[r] \in DOMAIN heap
           /\ report[r].steps_completed = <<>>
           /\ report[r].errors = <<>>
           /\ DOMAIN report[r].stats = {}

C4_Witness ==
    /\ pc[1] = "returned"
    /\ steps[1] = <<>>
    /\ NRows(input[1]) = MaxRows

\* the positions in todo up to and including the first that failed
RECURSIVE UpToFirstFailure(_, _)
UpToFirstFailure(todo, failedAt) ==
    IF todo = <<>> THEN <<>>
    ELSE IF Head(todo) \in failedAt THEN <<Head(todo)>>
    ELSE <<Head(todo)>> \o UpToFirstFailure(Tail(todo), failedAt)

\* C5: the transforms invoked are those of the enabled steps, in declaration
\* order, each once (cut off after the first failure under stop_on_error);
\* no disabled step is invoked or entered in steps_completed or errors;
\* steps_completed lists the successful steps in declaration order.
C5_DeclarationOrder ==
    \A r \in Runs :
        Started(r) =>
            LET invoked == [k \in 1..Len(calls[r]) |-> calls[r][k].step]
                failedAt == {calls[r][k].step : k \in {j \in 1..Len(calls[r]) : calls[r][j].raised}}
                expected == IF stop_on_error[r]
                            THEN UpToFirstFailure(EnabledPositions(r), failedAt)
                            ELSE EnabledPositions(r)
                due == SelectSeq(expected, LAMBDA k : k < i[r])
            IN  /\ invoked = due
                /\ pc[r] = "returned" => invoked = expected
                /\ completed_steps[r] = [k \in 1..Len(Succeeded(r)) |-> Succeeded(r)[k].name]
                /\ [k \in 1..Len(errors[r]) |-> errors[r][k].module]
                      = [k \in 1..Len(Failed(r)) |-> Failed(r)[k].name]
                /\ \A k \in 1..Len(Succeeded(r)) : Succeeded(r)[k].enabled
                /\ \A k \in 1..Len(Failed(r)) : Failed(r)[k].enabled

C5_Witness ==
    /\ pc[1] = "returned"
    /\ Len(steps[1]) = MaxSteps
    /\ ~steps[1][1].enabled
    /\ Len(report[1].steps_completed) = MaxSteps - 1

\* C6: under stop_on_error the first failing step ends the run: it is the
\* last transform invoked, errors has exactly one entry, and the table
\* returned is the working table as the last successful step left it (the
\* copy of the input if none succeeded).
C6_StopOnFirstError ==
    \A r \in Runs :
        (pc[r] = "returned" /\ stop_on_error[r] /\ report[r].errors # <<>>)
        => /\ Len(report[r].errors) = 1
           /\ calls[r][Len(calls[r])].raised
           /\ WorkingTable(r) = ApplyAll(input[r], Succeeded(r), current_user[r])

\* C7: at the end of a run, the length of steps_completed plus the number
\* of distinct step names in errors is the number of transforms attempted.
C7_CompletedPlusFailedNames ==
    \A r \in Runs :
        pc[r] = "returned" =>
            Len(report[r].steps_completed)
              + Cardinality({report[r].errors[k].module : k \in 1..Len(report[r].errors)})
            = Len(calls[r])

\* C8: the caller's table keeps its rows, columns and cells through the
\* run, whatever the transforms do to the table they are handed; the
\* working table is another object.
C8_CallerTableUntouched ==
    \A r \in Runs :
        /\ pc[r] # "idle" => heap[df[r]] = input[r]
        /\ Started(r) => result_df[r] # df[r]

C8_Witness ==
    /\ pc[1] = "returned"
    /\ NRows(input[1]) = MaxRows
    /\ \E k \in 1..Len(calls[1]) :
          ~calls[1][k].raised /\ steps[1][calls[1][k].step].module_func = "mutate_in_place"
    /\ \E k \in 1..Len(calls[1]) :
          calls[1][k].raised /\ steps[1][calls[1][k].step].module_func = "mutate_then_raise"
    /\ WorkingTable(1) # input[1]

\* C9: a pipeline of the repository's transforms with parameters valid for
\* the table completes every enabled step without an error, with the
\* identity present or absent.
C9_TransformsAcceptCurrentUser ==
    \A r \in Runs :
        (/\ pc[r] = "returned"
         /\ \A k \in 1..Len(steps[r]) : steps[r][k] \in ValidSteps)
        => /\ report[r].errors = <<>>
           /\ report[r].steps_completed = [k \in 1..Len(steps[r]) |-> steps[r][k].name]

\* ------------------------------------------------- two runs, two callers
\* the steps of the runs that are compared
PairSteps ==
    { s \in StepChoices :
        \/ s.module_func \in {"normalize_text", "process", "mutate_in_place"}
        \/ s.module_func = "impute_missing" /\ s.params.columns = <<"txt">> }

\* two calls of run_pipeline on equal tables with equal step lists and flags,
\* by callers with different identities
InitPair ==
    /\ env \in Envs
    /\ NoRegistry
    /\ NoUsers
    /\ applied = NotApplied
    /\ \E t \in Tables, l \in StepLists(PairSteps), s \in BOOLEAN,
          u \in {<<None, alice>>, <<alice, bob>>} :
          Entered(Runs, "called", [r \in Runs |-> r - 1], [r \in Runs |-> t],
                  [r \in Runs |-> l], [r \in Runs |-> s], [r \in Runs |-> u[r]])

\* the second call is made when the first has returned
NextPair ==
    \E r \in Runs :
        /\ \A q \in Runs : q < r => pc[q] = "returned"
        /\ Start(r) \/ SkipStep(r) \/ ExecuteStep(r) \/ Finish(r)

SpecPair == InitPair /\ [][NextPair]_vars

\* C10: two runs on equal tables with equal step lists that differ in
\* current_user only return equal tables and reports with equal
\* steps_completed, error modules and stats.
C10_IdentityHasNoEffect ==
    \A r1, r2 \in Runs :
        (/\ pc[r1] = "returned" /\ pc[r2] = "returned"
         /\ input[r1] = input[r2] /\ steps[r1] = steps[r2]
         /\ stop_on_error[r1] = stop_on_error[r2])
        => /\ WorkingTable(r1) = WorkingTable(r2)
           /\ report[r1].steps_completed = report[r2].steps_completed
           /\ [k \in 1..Len(report[r1].errors) |-> report[r1].errors[k].module]
                 = [k \in 1..Len(report[r2].errors) |-> report[r2].errors[k].module]
           /\ report[r1].stats = report[r2].stats

C10_Witness ==
    /\ pc[1] = "returned" /\ pc[2] = "returned"
    /\ current_user[1] = None /\ current_user[2] = alice
    /\ env.llm_pipeline = "lowercases"
    /\ \E k \in 1..Len(steps[1]) : steps[1][k].module_func = "process"
    /\ "intelligent_text_normalizer" \in Range(report[1].steps_completed)
    /\ report[1].errors # <<>>
    /\ WorkingTable(1) # input[1]

\* --------------------------------------------- two runs at the same time
\* the steps of the runs that overlap: callables that edit the table they
\* are given, a failing one, a disabled one and a transform that drops rows
ConcSteps ==
    { s \in StepChoices :
        \/ s.module_func \in {"mutate_in_place", "mutate_then_raise"}
        \/ s.module_func = "detect_outliers" /\ s.params.action = "remove" }

\* the step lists of the second of the two runs: no step or one step
ConcLists2 ==
    {<<>>} \cup { <<s>> : s \in { c \in ConcSteps :
                       c.enabled /\ c.module_func # "mutate_then_raise" } }

\* two CleaningThreads: each calls run_pipeline with its own steps, on the
\* same DataFrame object or on two objects with equal contents
InitConc ==
    /\ env \in { e \in Envs : e.llm_pipeline = "None" /\ e.chained_inplace }
    /\ NoRegistry
    /\ NoUsers
    /\ applied = NotApplied
    /\ \E t \in Tables, l1 \in StepLists(ConcSteps), l2 \in ConcLists2,
          s \in BOOLEAN, ref \in {<<0, 0>>, <<0, 1>>} :
          Entered(Runs, "called", ref, [r \in Runs |-> t], <<l1, l2>>,
                  [r \in Runs |-> s], [r \in Runs |-> None])

\* the steps of the two runs interleave in every order
SpecConc == InitConc /\ [][Next]_vars

\* The loop of run_pipeline from the step list todo on, in a process in
\* which nothing else runs: h holds the caller's table (0) and the working
\* table (ref); the result is the table and the report returned.
RECURSIVE LoopAlone(_, _, _, _, _, _, _, _)
LoopAlone(h, ref, todo, stop, user, completed, failed, done) ==
    IF todo = <<>>
    THEN [table |-> h[ref], report |-> Report(completed, failed, done)]
    ELSE IF ~Head(todo).enabled
    THEN LoopAlone(h, ref, Tail(todo), stop, user, completed, failed, done)
    ELSE LET step == Head(todo)
             After(call) ==
                 IF ~call.raised
                 THEN LoopAlone(Collect(call.heap, {0, call.ret}), call.ret,
                                Tail(todo), stop, user,
                                Append(completed, step.name), failed,
                                [n \in DOMAIN done \cup {step.name} |->
                                    [status |-> "success"]])
                 ELSE LoopAlone(Collect(call.heap, {0, ref}), ref,
                                IF stop THEN <<>> ELSE Tail(todo), stop, user,
                                completed, Append(failed, error_info(step, call)),
                                done)
         IN  After(Invoke(step.module_func, h, ref, user, step.params, env))

\* what run_pipeline returns for run r's arguments when it runs alone
Alone(r) ==
    LET FromCopy(copy) ==
            LoopAlone(copy.heap, copy.ref, steps[r], stop_on_error[r],
                      current_user[r], <<>>, <<>>, <<>>)
    IN  FromCopy(Copy([id \in {0} |-> input[r]], 0))

\* C11: under every interleaving of two run_pipeline calls, each returns
\* the table and the report it returns when it runs alone.
C11_ConcurrentRunsIndependent ==
    \A r \in Runs :
        pc[r] = "returned" =>
            /\ WorkingTable(r) = Alone(r).table
            /\ report[r] = Alone(r).report

\* both runs were called on the same object and each started before the
\* other returned (the two start events come first in the audit table); the
\* first edited its working table in place and had a failure, the second
\* dropped rows, and both have returned
C11_Witness ==
    /\ pc[1] = "returned" /\ pc[2] = "returned"
    /\ df[1] = df[2]
    /\ Len(audit_entries) = 4
    /\ audit_entries[2].action_type = "PIPELINE_EXECUTION_START"
    /\ NRows(input[1]) = MaxRows
    /\ report[1].errors # <<>>
    /\ \E k \in 1..Len(calls[1]) :
          ~calls[1][k].raised /\ steps[1][calls[1][k].step].module_func = "mutate_in_place"
    /\ NRows(WorkingTable(2)) < NRows(input[2])
    /\ WorkingTable(1) # input[1]

\* ------------------------------------------- the transforms called alone
\* The rows of the tables the transforms are called on: the float64 columns
\* num (12, 36 or missing) and qty (24, in one row 48), the object column txt.
CallRows ==
    { <<Num(12), Num(24), Str(<<"A", "!">>)>>,
      <<Num(36), Num(24), NaN>>,
      <<NaN, Num(24), Str(<<" ", "b">>)>>,
      <<Num(36), Num(48), Str(<<"A", "!">>)>> }

CallTableOf(rows) ==
    DataFrame(<<"num", "qty", "txt">>,
              [k \in 1..Len(rows) |-> k - 1],
              [c \in {"num", "qty", "txt"} |-> IF c = "txt" THEN "object" ELSE "float64"],
              [c \in {"num", "qty", "txt"} |->
                  [k \in 1..Len(rows) |->
                      rows[k][CASE c = "num" -> 1 [] c = "qty" -> 2 [] OTHER -> 3]]])

CallTables == {CallTableOf(rows) : rows \in UNION {[1..n -> CallRows] : n \in 0..MaxRows}}

\* the keyword arguments with the optional ones left out: the record
\* required and any subset of the fields of optional
Keywords(required, optional) ==
    { [k \in DOMAIN required \cup some |->
          IF k \in DOMAIN required THEN required[k] ELSE optional[k]] :
      some \in SUBSET DOMAIN optional }

ImputerCalls ==
    { ModuleConfig("missing_imputer", "impute_missing", kw, TRUE) :
        kw \in UNION { Keywords([method |-> m], [columns |-> c]) :
                 m \in {"mean", "median", "mode", "constant", "knn", "nearest"},
                 c \in {<<"num">>, <<"txt">>, <<"num", "txt">>,
                        <<"num", "nonexistent_column">>} }
              \cup { [columns |-> <<"num", "txt">>, method |-> "constant",
                      fill_value |-> Str(<<"n">>)] } }

NormalizerCalls ==
    { ModuleConfig("text_normalizer", "normalize_text",
                   [columns |-> c, lowercase |-> l, remove_punct |-> l], TRUE) :
        c \in {<<"txt">>, <<"num">>, <<"txt", "nonexistent_column">>},
        l \in BOOLEAN }

DetectorCalls ==
    { ModuleConfig("outlier_detector", "detect_outliers", kw, TRUE) :
        kw \in UNION { Keywords([columns |-> c, method |-> m, action |-> a],
                                [threshold |-> Frac(1, 4)]) :
                 c \in {<<"num">>, <<"qty">>, <<"num", "qty">>,
                        <<"num", "nonexistent_column">>},
                 m \in {"iqr", "zscore", "isolation", "dbscan"},
                 a \in {"remove", "flag", "cap"} } }

PluginCalls ==
    { ModuleConfig("intelligent_text_normalizer", "process", kw, TRUE) :
        kw \in UNION { Keywords(NoParams, [columns |-> c, normalization_rules |-> Rules]) :
                 c \in {<<"txt">>, <<"txt", "nonexistent_column">>} } }

CallSteps == ImputerCalls \cup NormalizerCalls \cup DetectorCalls \cup PluginCalls

\* the libraries of the calls; the estimators label no row or the first
CallEnvs ==
    { [llm_pipeline |-> m, nltk |-> "ok", flagged |-> f, chained_inplace |-> w, audit |-> "ok"] :
        m \in {"None", "lowercases", "raises_on_bang", "unexpected_on_bang"},
        f \in {{}, {1}}, w \in BOOLEAN }

\* one call of one transform
InitCalls ==
    /\ env \in CallEnvs
    /\ NoRegistry
    /\ NoUsers
    /\ applied = NotApplied
    /\ \E t \in CallTables, s \in CallSteps :
          Entered({1}, "direct", [r \in Runs |-> 0], [r \in Runs |-> t],
                  [r \in Runs |-> <<s>>], [r \in Runs |-> FALSE],
                  [r \in Runs |-> None])

NextCalls == \E r \in Runs : CallTransform(r)

SpecCalls == InitCalls /\ [][NextCalls]_vars

\* the call of run r has ended
Called(r) == pc[r] \in {"done", "failed"}

\* the transform and the keyword arguments of the call of run r
Func(r) == steps[r][1].module_func
Args(r) == steps[r][1].params

\* the columns the call of run r declares as its targets
Targets(r) ==
    IF "columns" \in DOMAIN Args(r) THEN Range(Args(r).columns)
    ELSE IF Func(r) = "impute_missing" THEN ColumnSet(input[r])
    ELSE {}

\* C12: a call that names a column the table lacks fails, and the error
\* names the missing columns.
C12_MissingColumnsRejected ==
    \A r \in Runs :
        (Called(r) /\ Targets(r) \ ColumnSet(input[r]) # {})
        => /\ pc[r] = "failed"
           /\ errors[r][1].error.cols = Targets(r) \ ColumnSet(input[r])

\* C13: a successful call returns an object other than the one it was
\* given and leaves the contents of that one as they were.
C13_ReturnsSeparateObject ==
    \A r \in Runs :
        pc[r] = "done" =>
            /\ result_df[r] # df[r]
            /\ heap[df[r]] = input[r]

\* C14: the imputer, the text normalizer and the LLM-backed normalizer
\* return the columns and the rows of the input in their order, and the
\* cells of every column that is not a target as they were.
C14_OnlyTargetColumnsChange ==
    \A r \in Runs :
        (pc[r] = "done"
         /\ Func(r) \in {"impute_missing", "normalize_text", "process"})
        => /\ WorkingTable(r).columns = input[r].columns
           /\ WorkingTable(r).index = input[r].index
           /\ \A c \in ColumnSet(input[r]) \ Targets(r) :
                 WorkingTable(r).data[c] = input[r].data[c]

\* a call of the text normalizer that changed its one target column in a
\* table of MaxRows rows whose other columns hold values and a missing one
C14_Witness ==
    /\ pc[1] = "done"
    /\ NRows(input[1]) = MaxRows
    /\ Func(1) = "normalize_text"
    /\ Targets(1) = {"txt"}
    /\ WorkingTable(1).data["txt"] # input[1].data["txt"]
    /\ \E k \in 1..MaxRows : IsNa(input[1].data["num"][k])

\* the call of run r is a call of detect_outliers on target columns that
\* exist and are numeric
DetectorCall(r) ==
    /\ Called(r)
    /\ Func(r) = "detect_outliers"
    /\ Targets(r) \subseteq ColumnSet(input[r])
    /\ \A c \in Targets(r) : is_numeric_dtype(input[r], c)

ValidMethods == {"iqr", "zscore", "isolation", "lof"}
ValidActions == {"remove", "flag"}

\* C18: on numeric target columns that exist, zero variance or not, a
\* method or an action outside the supported ones makes detect_outliers fail.
C18_UnknownMethodOrActionFails ==
    \A r \in Runs :
        (DetectorCall(r)
         /\ (Args(r).method \notin ValidMethods \/ Args(r).action \notin ValidActions))
        => pc[r] = "failed"

\* the rows of the input of run r that the method of its call flags on at
\* least one target column of non-zero variance
FlaggedRow(r, k) ==
    LET live == {c \in Targets(r) : ~ZeroVariance(input[r].data[c])}
    IN  CASE Args(r).method = "iqr" ->
               \E c \in live :
                   IqrOutliers(input[r].data[c],
                               ThresholdOr(Args(r), DefaultIqrThreshold))[k]
          [] Args(r).method = "zscore" ->
               \E c \in live :
                   ZscoreOutliers(input[r].data[c],
                                  ThresholdOr(Args(r), DefaultZscoreThreshold))[k]
          [] OTHER -> live # {} /\ k \in env.flagged

\* C19: with a supported method on numeric target columns, "flag" returns
\* the rows of the input in order with one more column, boolean and true
\* exactly on the flagged rows, and "remove" returns the unflagged rows in
\* order with the columns of the input.
C19_FlagAddsColumnRemoveDropsRows ==
    \A r \in Runs :
        (DetectorCall(r)
         /\ Args(r).method \in ValidMethods /\ Args(r).action \in ValidActions)
        => /\ pc[r] = "done"
           /\ IF Args(r).action = "flag"
              THEN /\ WorkingTable(r).columns = Append(input[r].columns, "is_outlier")
                   /\ WorkingTable(r).index = input[r].index
                   /\ \A c \in ColumnSet(input[r]) :
                         WorkingTable(r).data[c] = input[r].data[c]
                   /\ WorkingTable(r).dtypes["is_outlier"] = "bool"
                   /\ WorkingTable(r).data["is_outlier"]
                         = [k \in 1..NRows(input[r]) |-> Bool(FlaggedRow(r, k))]
              ELSE WorkingTable(r)
                     = SelectRows(input[r],
                                  [k \in 1..NRows(input[r]) |-> ~FlaggedRow(r, k)])

\* C20: after mean, median, mode or constant imputation a target column
\* that had a value (numeric, for mean and median) has no missing cell, its
\* filled cells hold one value, its other cells are kept; a non-numeric
\* column targeted by mean or median is unchanged.
C20_ImputationFillsTargets ==
    \A r \in Runs :
        (Called(r) /\ Func(r) = "impute_missing"
         /\ Args(r).method \in {"mean", "median", "mode", "constant"}
         /\ Targets(r) \subseteq ColumnSet(input[r]))
        => /\ pc[r] = "done"
           /\ \A c \in Targets(r) :
                 LET before == input[r].data[c]
                     after == WorkingTable(r).data[c]
                     rows == 1..NRows(input[r])
                 IN  IF Args(r).method \in {"mean", "median"}
                        /\ ~is_numeric_dtype(input[r], c)
                     THEN after = before
                     ELSE (\E k \in rows : ~IsNa(before[k]))
                          => /\ \A k \in rows : ~IsNa(after[k])
                             /\ \A j, k \in rows :
                                   (IsNa(before[j]) /\ IsNa(before[k]))
                                   => after[j] = after[k]
                             /\ \A k \in rows : ~IsNa(before[k]) => after[k] = before[k]

\* ----------------------------------------------- the registry on its own
Letters == <<"a", "b", "c", "d">>

\* what the k-th item of a provider directory can be: a directory with each
\* kind of provider, a directory whose name starts with "_", or a file
ItemsAt(k) ==
    { Item(<<Letters[k]>>, TRUE, load) :
          load \in {"process", "no_process", "ImportError", "SyntaxError"} }
    \cup { Item(<<"_", Letters[k]>>, TRUE, "process"),
           Item(<<Letters[k]>>, FALSE, "process") }

\* the listings of a directory with up to n items
Listings(n) ==
    UNION { {items \in [1..m -> UNION {ItemsAt(k) : k \in 1..m}] :
                \A k \in 1..m : items[k] \in ItemsAt(k)} : m \in 0..n }

\* the plugins directory: with no item, or with one, named as a built-in
\* module or not
PluginListings ==
    { <<>> }
    \cup { <<Item(<<ch>>, TRUE, load)>> :
              ch \in {"a", "p"}, load \in {"process", "ImportError", "SyntaxError"} }

\* the built-in modules directory, and the plugins directory if it exists
FileSystems ==
    { f \in [modules : Listings(MaxItems), plugins : PluginListings,
             plugins_exists : BOOLEAN] :
        f.plugins_exists \/ f.plugins = <<>> }

\* the names callers ask for and edit
QueryNames == {<<"a">>, <<"b">>, <<"_", "a">>, <<"p">>, <<"z">>}
Edits == [op : {"set", "del"}, key : {<<"a">>, <<"z">>}]

\* no pipeline runs; a registry is about to be constructed
InitRegistry ==
    /\ env = [llm_pipeline |-> "None", nltk |-> "ok", flagged |-> {},
              chained_inplace |-> TRUE, audit |-> "ok"]
    /\ Entered({}, "called", [r \in Runs |-> 0], [r \in Runs |-> NoFrame],
               [r \in Runs |-> <<>>], [r \in Runs |-> FALSE], [r \in Runs |-> None])
    /\ fs \in FileSystems
    /\ modules = EmptyDict
    /\ scan = "new"
    /\ listed = <<>>
    /\ got = NoCall
    /\ NoUsers
    /\ applied = NotApplied

NextRegistry ==
    \/ Construct
    \/ \E name \in QueryNames : GetModule(name)
    \/ ListModules
    \/ \E k \in 1..MaxListed, edit \in Edits : CallerEdit(k, edit)

SpecRegistry == InitRegistry /\ [][NextRegistry]_vars

\* the roots a scan visits, with their package prefixes and listings
ScannedRoots ==
    { [prefix |-> "modules", items |-> fs.modules] }
    \cup (IF fs.plugins_exists
          THEN { [prefix |-> "plugins", items |-> fs.plugins] } ELSE {})

\* the item is a directory that the scan would try to load
Candidate(item) == item.is_dir /\ ~(item.name # <<>> /\ item.name[1] = "_")

\* name is the name of a candidate of the root whose provider loads and
\* has a process attribute
Provides(root, name) ==
    \E k \in 1..Len(root.items) :
        /\ root.items[k].name = name
        /\ Candidate(root.items[k])
        /\ root.items[k].load = "process"

\* the names of the items of the scanned roots, and those callers ask for
KnownNames ==
    QueryNames \cup UNION { {root.items[k].name : k \in 1..Len(root.items)} :
                            root \in ScannedRoots }

\* C15: whatever way the load of a candidate fails, constructing the
\* registry does not fail and every valid provider is registered.
C15_ScanToleratesBadProviders ==
    scan # "new"
    => /\ scan = "ready"
       /\ \A root \in ScannedRoots : \A name \in KnownNames :
              Provides(root, name) => name \in DOMAIN modules

\* C16: after a scan the registered names are those of the candidates of
\* the scanned roots whose provider loads and has process; get_module
\* gives the process of such a provider for a registered name and the
\* absent result for any other.
C16_RegisteredIffValidProvider ==
    scan = "ready"
    => /\ \A name \in KnownNames :
              name \in DOMAIN modules
              <=> \E root \in ScannedRoots : Provides(root, name)
       /\ DOMAIN modules \subseteq KnownNames
       /\ got.called
          => IF \E root \in ScannedRoots : Provides(root, got.name)
             THEN \E root \in ScannedRoots :
                      /\ Provides(root, got.name)
                      /\ got.value = Process(root.prefix, got.name)
             ELSE got.value = Absent

\* a scan that left out a directory without process, a directory whose
\* name starts with "_" or a file, registered another, and a caller got it
C16_Witness ==
    /\ scan = "ready"
    /\ got.called /\ got.value # Absent
    /\ \E k \in 1..Len(fs.modules) :
          /\ fs.modules[k].name \notin DOMAIN modules
          /\ fs.modules[k].is_dir
          /\ fs.modules[k].load = "no_process"

\* C17: once constructed the registry does not change: no get_module, no
\* list_modules and no edit of a mapping a caller holds changes it, and
\* every get_module answers from it.
C17_RegistryReadOnly ==
    [][scan = "ready"
       => /\ modules' = modules
          /\ got'.called => got'.value = get_module(modules, got'.name)
          /\ Len(listed') > Len(listed)
             => listed'[Len(listed')].map = modules]_vars

\* a caller holds a mapping it has edited away from the registry, and a
\* later get_module gave the registered provider the mapping no longer has
C17_Witness ==
    /\ scan = "ready"
    /\ Len(listed) = MaxListed
    /\ got.called
    /\ got.name \in DOMAIN modules
    /\ got.value = modules[got.name]
    /\ \/ got.name \notin DOMAIN listed[1].map
       \/ listed[1].map[got.name] # got.value
    /\ <<"z">> \in DOMAIN listed[1].map

\* ---------------------------------------- a transform applied to its output
\* the caller hands the table it got back to the same transform again, with
\* the same keyword arguments
Reapply(r) ==
    /\ pc[r] = "done"
    /\ Len(calls[r]) = 1
    /\ df' = [df EXCEPT ![r] = result_df[r]]
    /\ input' = [input EXCEPT ![r] = heap[result_df[r]]]
    /\ heap' = Collect(heap, {result_df[q] : q \in Runs})
    /\ pc' = [pc EXCEPT ![r] = "direct"]
    /\ UNCHANGED <<steps, stop_on_error, current_user, i, result_df,
                   completed_steps, errors, stats, report, calls,
                   audit_entries, env>>
    /\ UNCHANGED <<registryVars, storeVars, applied>>

\* the cells of the text column: letters of both cases with punctuation,
\* padded text, a stopword before a word, a missing value, and the padded
\* text of the three letters nan
TextCells ==
    { Str(<<"A", "!">>), Str(<<" ", "b">>), Str(<<"a", " ", "b">>), NaN,
      Str(<<" ", "n", "a", "n">>) }

TextTables ==
    { CallTableOf(rows) :
        rows \in UNION { [1..n -> {<<Num(12), Num(24), c>> : c \in TextCells}] :
                         n \in 0..MaxRows } }

\* slang dictionaries, as the sequence of their items: one whose
\* replacement holds no slang, one whose replacement holds its own slang
SlangDicts ==
    { <<<< <<"A">>, <<"a">> >>>>, <<<< <<"b">>, <<"b", "b">> >>>> }

NormalizerCallsAll ==
    { ModuleConfig("text_normalizer", "normalize_text", kw, TRUE) :
        kw \in UNION { Keywords([columns |-> <<"txt">>, lowercase |-> l,
                                 remove_punct |-> p, remove_stopwords |-> w],
                                [slang_dict |-> d]) :
                 l \in BOOLEAN, p \in BOOLEAN, w \in BOOLEAN, d \in SlangDicts } }

\* normalize_text called on a table, and again on what it returned
InitTwice ==
    /\ env \in { [llm_pipeline |-> "None", nltk |-> n, flagged |-> {},
                  chained_inplace |-> TRUE, audit |-> "ok"] : n \in {"ok", "missing"} }
    /\ NoRegistry
    /\ NoUsers
    /\ applied = NotApplied
    /\ \E t \in TextTables, s \in NormalizerCallsAll :
          Entered({1}, "direct", [r \in Runs |-> 0], [r \in Runs |-> t],
                  [r \in Runs |-> <<s>>], [r \in Runs |-> FALSE],
                  [r \in Runs |-> None])

NextTwice == \E r \in Runs : CallTransform(r) \/ Reapply(r)

SpecTwice == InitTwice /\ [][NextTwice]_vars

\* C21: normalize_text applied to its own output with the same parameters
\* returns a table equal to that output.
C21_NormalizerIdempotent ==
    \A r \in Runs :
        (Called(r) /\ Len(calls[r]) = 2)
        => /\ pc[r] = "done"
           /\ WorkingTable(r) = input[r]

\* the call of run r is a call of the LLM-backed normalizer with columns
\* and a normalization rule
PluginCall(r) ==
    /\ Called(r)
    /\ Func(r) = "process"
    /\ "columns" \in DOMAIN Args(r)
    /\ "normalization_rules" \in DOMAIN Args(r)

\* the generation fails for the cell c: the call raises, or returns a
\* result of unexpected shape
InferenceFails(c, rules) ==
    LET answer == Generate(env.llm_pipeline,
                           format_prompt(StrOf(c), rules), StrOf(c))
    IN  Strip(StrOf(c)) # <<>> /\ (answer.raised \/ answer.value = <<>>)

\* C22: a cell whose inference fails keeps its value, the cells of the
\* other rows and columns are processed all the same, and the transform
\* does not raise.
C22_FailedInferenceKeepsCell ==
    \A r \in Runs :
        (PluginCall(r) /\ env.llm_pipeline # "None")
        => /\ pc[r] = "done"
           /\ \A c \in Targets(r) \cap ColumnSet(input[r]) :
              \A k \in 1..NRows(input[r]) :
                 LET cell == input[r].data[c][k]
                     text == StrOf(cell)
                     prompt == format_prompt(text, Args(r).normalization_rules)
                 IN  IF InferenceFails(cell, Args(r).normalization_rules)
                        \/ Strip(text) = <<>>
                     THEN WorkingTable(r).data[c][k] = cell
                     ELSE WorkingTable(r).data[c][k]
                            = Str(parse_llm_output(
                                     Generate(env.llm_pipeline, prompt, text).value[1],
                                     prompt))

\* a call in which the inference failed for the first row and a later row
\* was normalized to another text
C22_Witness ==
    /\ PluginCall(1) /\ pc[1] = "done"
    /\ env.llm_pipeline = "raises_on_bang"
    /\ NRows(input[1]) = MaxRows
    /\ InferenceFails(input[1].data["txt"][1], Args(1).normalization_rules)
    /\ WorkingTable(1).data["txt"][1] = input[1].data["txt"][1]
    /\ WorkingTable(1).data["txt"][MaxRows] # input[1].data["txt"][MaxRows]
    /\ ~IsNa(WorkingTable(1).data["txt"][MaxRows])

\* the step is a step of the LLM-backed normalizer with columns and a rule
PluginStep(step) ==
    /\ step.module_func = "process"
    /\ "columns" \in DOMAIN step.params
    /\ "normalization_rules" \in DOMAIN step.params

\* C23: without the generation capability a step of the LLM-backed
\* normalizer does not fail and is completed, nothing is generated (the
\* plugin's audit event, written before the first generation call, is
\* never written), and a pipeline of such steps returns a table equal to
\* its input.
C23_PassthroughWithoutModel ==
    \A r \in Runs :
        (env.llm_pipeline = "None" /\ pc[r] = "returned")
        => /\ \A k \in 1..Len(calls[r]) :
                 PluginStep(steps[r][calls[r][k].step])
                 => /\ ~calls[r][k].raised
                    /\ \E j \in 1..Len(report[r].steps_completed) :
                          report[r].steps_completed[j]
                              = steps[r][calls[r][k].step].name
           /\ \A k \in 1..Len(audit_entries) :
                 audit_entries[k].action_type # "PLUGIN_LLM_NORMALIZER_USED"
           /\ (\A k \in 1..Len(steps[r]) :
                   steps[r][k].enabled => PluginStep(steps[r][k]))
              => /\ WorkingTable(r) = input[r]
                 /\ report[r].errors = <<>>

\* a returned run of MaxSteps steps of the LLM-backed normalizer on a
\* table of MaxRows rows, without the generation capability
C23_Witness ==
    /\ env.llm_pipeline = "None"
    /\ pc[1] = "returned"
    /\ Len(steps[1]) = MaxSteps
    /\ \A k \in 1..Len(steps[1]) : steps[1][k].enabled /\ PluginStep(steps[1][k])
    /\ Len(calls[1]) = MaxSteps
    /\ NRows(input[1]) = MaxRows
    /\ Len(report[1].steps_completed) = MaxSteps

\* ------------------------------------------------ app/core/user_management
\* bcrypt works on the first 72 bytes of a password; the passwords of the
\* model have up to three characters and the limit is scaled to two.
BcryptBytes == 2

\* bcrypt.hashpw(password, bcrypt.gensalt()): the salt and the digest of the
\* password, modelled by the bytes it is computed from.  A password over the
\* limit is cut to it ("truncates", bcrypt before 5.0) or refused with
\* ValueError ("rejects", bcrypt 5.0 and later); setup.py names no version.
hash_password(password, salt, bcrypt) ==
    IF Len(password) > BcryptBytes /\ bcrypt = "rejects"
    THEN [raised |-> TRUE, value |-> [salt |-> 0, digest |-> <<>>]]
    ELSE [raised |-> FALSE,
          value |-> [salt |-> salt,
                     digest |-> SubSeq(password, 1,
                                       IF Len(password) > BcryptBytes
                                       THEN BcryptBytes ELSE Len(password))]]

\* bcrypt.checkpw(plain, hashed), False on ValueError
verify_password(plain_password, hashed_password_from_db, bcrypt) ==
    LET again == hash_password(plain_password, hashed_password_from_db.salt, bcrypt)
    IN  ~again.raised /\ again.value = hashed_password_from_db

\* username TEXT UNIQUE: the INSERT raises sqlite3.IntegrityError
UniqueViolated(rows, name) ==
    \E k \in 1..Len(rows) : rows[k].username = name

\* the rows WHERE username = ?
Matching(rows, name) == SelectSeq(rows, LAMBDA row : row.username = name)

NoUser == [id |-> 0, username |-> "", role |-> ""]

\* what a call gives: the table afterwards, the value returned ("True",
\* "False", "None", "user" with the record, or the exception raised) and
\* the audit event logged
Gives(store, value, user, event) ==
    [users |-> store, value |-> value, user |-> user, event |-> event]

add_user(store, name, plain_password, role, salt, bcrypt) ==
    LET hashed_pwd == hash_password(plain_password, salt, bcrypt)
    IN  IF hashed_pwd.raised THEN Gives(store, "ValueError", NoUser, "")
        ELSE IF UniqueViolated(store.rows, name)
        THEN Gives(store, "False", NoUser, "USER_CREATE_FAILED")
        ELSE Gives([rows |-> Append(store.rows,
                                    [id |-> store.seq + 1, username |-> name,
                                     hashed_password |-> hashed_pwd.value,
                                     role |-> role]),
                    seq |-> store.seq + 1],
                   "True", NoUser, "USER_CREATED_BY_ADMIN")

\* UPDATE users SET role = ? WHERE username = ?; rowcount counts the rows
\* matched
update_user_role(store, name, new_role) ==
    IF Matching(store.rows, name) = <<>>
    THEN Gives(store, "False", NoUser, "USER_ROLE_UPDATE_FAILED")
    ELSE Gives([store EXCEPT !.rows =
                   [k \in 1..Len(store.rows) |->
                       IF store.rows[k].username = name
                       THEN [store.rows[k] EXCEPT !.role = new_role]
                       ELSE store.rows[k]]],
               "True", NoUser, "USER_ROLE_UPDATED_BY_ADMIN")

update_user_password(store, name, new_plain_password, salt, bcrypt) ==
    LET new_hashed_password == hash_password(new_plain_password, salt, bcrypt)
    IN  IF new_hashed_password.raised THEN Gives(store, "ValueError", NoUser, "")
        ELSE IF Matching(store.rows, name) = <<>>
        THEN Gives(store, "False", NoUser, "USER_PASSWORD_UPDATE_FAILED")
        ELSE Gives([store EXCEPT !.rows =
                       [k \in 1..Len(store.rows) |->
                           IF store.rows[k].username = name
                           THEN [store.rows[k] EXCEPT
                                    !.hashed_password = new_hashed_password.value]
                           ELSE store.rows[k]]],
                   "True", NoUser, "USER_PASSWORD_UPDATED_BY_ADMIN")

\* DELETE FROM users WHERE username = ?
delete_user(store, name) ==
    IF Matching(store.rows, name) = <<>>
    THEN Gives(store, "False", NoUser, "USER_DELETE_FAILED")
    ELSE Gives([store EXCEPT !.rows =
                   SelectSeq(store.rows, LAMBDA row : row.username # name)],
               "True", NoUser, "USER_DELETED_BY_ADMIN")

\* get_user_by_username, then verify_password
login_user(store, name, plain_password, bcrypt) ==
    LET found == Matching(store.rows, name)
    IN  IF found # <<>>
           /\ verify_password(plain_password, found[1].hashed_password, bcrypt)
        THEN Gives(store, "user",
                   [id |-> found[1].id, username |-> found[1].username,
                    role |-> found[1].role],
                   "USER_LOGIN_SUCCESS")
        ELSE Gives(store, "None", NoUser, "USER_LOGIN_FAILURE")

\* a caller calls op with a username and a password; out is what the
\* function gives; sets says whether a True sets the username's password,
\* drops whether a True removes the username
UserCall(op, name, password, out, sets, drops) ==
    /\ users' = out.users
    /\ reply' = [op |-> op, username |-> name, password |-> password,
                 value |-> out.value, user |-> out.user, event |-> out.event]
    /\ passwords' =
          IF out.value # "True" THEN passwords
          ELSE IF sets
          THEN [u \in DOMAIN passwords \cup {name} |->
                   IF u = name THEN password ELSE passwords[u]]
          ELSE IF drops
          THEN [u \in DOMAIN passwords \ {name} |-> passwords[u]]
          ELSE passwords
    /\ UNCHANGED <<pipelineVars, registryVars, applied>>

\* ids are given up to MaxIds
AddUser(name, password, role, salt) ==
    /\ users.seq < MaxIds \/ UniqueViolated(users.rows, name)
    /\ \E out \in {add_user(users, name, password, role, salt, env.bcrypt)} :
          UserCall("add_user", name, password, out, TRUE, FALSE)

UpdateUserRole(name, new_role) ==
    \E out \in {update_user_role(users, name, new_role)} :
        UserCall("update_user_role", name, <<>>, out, FALSE, FALSE)

UpdateUserPassword(name, password, salt) ==
    \E out \in {update_user_password(users, name, password, salt, env.bcrypt)} :
        UserCall("update_user_password", name, password, out, TRUE, FALSE)

DeleteUser(name) ==
    \E out \in {delete_user(users, name)} :
        UserCall("delete_user", name, <<>>, out, FALSE, TRUE)

LoginUser(name, password) ==
    \E out \in {login_user(users, name, password, env.bcrypt)} :
        UserCall("login_user", name, password, out, FALSE, FALSE)

Usernames == {"ann", "bo"}
Passwords == { <<"p">>, <<"p", "q">>, <<"p", "q", "p">>, <<"p", "q", "q">> }
Roles == {"user", "admin"}
Salts == {1, 2}

\* no pipeline runs and no registry; the users table is empty
InitUsers ==
    /\ env \in { [llm_pipeline |-> "None", nltk |-> "ok", flagged |-> {},
                  chained_inplace |-> TRUE, audit |-> "ok", bcrypt |-> b] :
                    b \in {"truncates", "rejects"} }
    /\ Entered({}, "called", [r \in Runs |-> 0], [r \in Runs |-> NoFrame],
               [r \in Runs |-> <<>>], [r \in Runs |-> FALSE], [r \in Runs |-> None])
    /\ NoRegistry
    /\ NoUsers
    /\ applied = NotApplied

NextUsers ==
    \E name \in Usernames, password \in Passwords :
        \/ \E role \in Roles, salt \in Salts : AddUser(name, password, role, salt)
        \/ \E role \in Roles : UpdateUserRole(name, role)
        \/ \E salt \in Salts : UpdateUserPassword(name, password, salt)
        \/ DeleteUser(name)
        \/ LoginUser(name, password)

SpecUsers == InitUsers /\ [][NextUsers]_vars

\* C24: no two rows of the users table have the same username, and
\* add_user for a username that exists returns False and leaves the table
\* as it was.
C24_UsernamesUnique ==
    [][/\ \A j, k \in 1..Len(users'.rows) :
             users'.rows[j].username = users'.rows[k].username => j = k
       /\ (reply'.op = "add_user" /\ UniqueViolated(users.rows, reply'.username))
          => /\ reply'.value = "False"
             /\ users' = users]_vars

\* C25: login_user returns a user record exactly when the username exists
\* and the password is the one set last for it; delete_user of a username
\* that does not exist returns False, and after a delete_user that returned
\* True the username does not exist.
C25_LoginIffCurrentPassword ==
    [][/\ reply'.op = "login_user"
          => (reply'.value = "user"
              <=> /\ reply'.username \in DOMAIN passwords'
                  /\ passwords'[reply'.username] = reply'.password)
       /\ reply'.op = "delete_user"
          => /\ ~UniqueViolated(users'.rows, reply'.username)
             /\ reply'.value = "True" <=> UniqueViolated(users.rows, reply'.username)
       /\ DOMAIN passwords' = {users'.rows[k].username : k \in 1..Len(users'.rows)}]_vars

\* ------------------------------------------------ run_pipeline's audit trail
\* the positions of the audit table that hold an event of the type
EventsOf(action_type) ==
    {k \in 1..Len(audit_entries) : audit_entries[k].action_type = action_type}

\* C26: a run_pipeline call writes its start event before it calls any
\* transform and its end event after the last call, one of each; the end
\* event's outcome is SUCCESS exactly when the report has no errors, and
\* its details are the completed steps, the number of errors and the row
\* count of the returned table.
C26_OneStartOneEnd ==
    /\ pc[1] = "called" => audit_entries = <<>> /\ calls[1] = <<>>
    /\ Started(1) => EventsOf("PIPELINE_EXECUTION_START") = {1}
    /\ pc[1] = "loop" => EventsOf("PIPELINE_EXECUTION_END") = {}
    /\ pc[1] = "returned" =>
          /\ EventsOf("PIPELINE_EXECUTION_END") = {Len(audit_entries)}
          /\ \E end \in {audit_entries[Len(audit_entries)]} :
                /\ end.outcome \in {"SUCCESS", "FAILURE"}
                /\ end.outcome = "SUCCESS" <=> report[1].errors = <<>>
                /\ end.details.steps_completed = report[1].steps_completed
                /\ end.details.errors_count = Len(report[1].errors)
                /\ end.details.output_rows = NRows(heap[result_df[1]])
    /\ pc[1] \in {"called", "loop", "returned"}

\* a run of two steps returned with an error, and a transform wrote an
\* event of its own between the start and the end event
C26_Witness ==
    /\ pc[1] = "returned"
    /\ report[1].errors # <<>>
    /\ Len(calls[1]) = 2
    /\ Len(audit_entries) = 3
    /\ audit_entries[3].outcome = "FAILURE"

\* -------------------------------------------------- audit failures
\* two run_pipeline calls by alice with the same table, steps and flag, the
\* second made when the first has returned; every log_audit_event call of
\* either may fail in each of the ways of AuditFaults
InitAudit ==
    /\ env \in { [llm_pipeline |-> m, nltk |-> "ok", flagged |-> {},
                  chained_inplace |-> TRUE, audit |-> "faulty"] :
                    m \in {"None", "lowercases"} }
    /\ NoRegistry
    /\ NoUsers
    /\ applied = NotApplied
    /\ \E t \in Tables, l \in StepLists(PairSteps), s \in BOOLEAN :
          Entered(Runs, "called", [r \in Runs |-> r - 1], [r \in Runs |-> t],
                  [r \in Runs |-> l], [r \in Runs |-> s], [r \in Runs |-> alice])

SpecAudit == InitAudit /\ [][NextPair]_vars

\* C30: no failure of the audit log makes run_pipeline raise, and two calls
\* with the same inputs return the same table and the same report
\* whichever of their events were recorded.
C30_AuditFailureChangesNothing ==
    /\ \A r \in Runs : pc[r] # "raised"
    /\ (\A r \in Runs : pc[r] = "returned") =>
          /\ heap[result_df[1]] = heap[result_df[2]]
          /\ report[1] = report[2]

\* both calls returned after calling a transform, the start and the end
\* event of one were recorded and those of the other were lost
C30_Witness ==
    /\ \A r \in Runs : pc[r] = "returned" /\ calls[r] # <<>>
    /\ report[1].steps_completed # <<>>
    /\ Len(audit_entries) = 2
    /\ audit_entries[1].action_type = "PIPELINE_EXECUTION_START"
    /\ audit_entries[2].action_type = "PIPELINE_EXECUTION_END"

\* ------------------------------------------------ parse_llm_output alone
\* the characters of the responses: the delimiter, a blank, a character of
\* the prompt and one of the answer
OutputAtoms == {"Normalized text:", " ", "P", "a"}

Outputs == UNION {[1..n -> OutputAtoms] : n \in 0..MaxText}

Prompts ==
    { <<>>, <<"P">>, <<"P", " ">>, <<"P", "Normalized text:">>, <<"a", "P">> }

\* a caller is about to call func with args
Applying(func, args) ==
    applied = [func |-> func, args |-> args, returned |-> FALSE, value |-> <<>>]

\* the call returns value
Return(func, value) ==
    /\ applied.func = func
    /\ ~applied.returned
    /\ applied' = [applied EXCEPT !.returned = TRUE, !.value = value]
    /\ UNCHANGED <<pipelineVars, registryVars, storeVars>>

ParseLlmOutput ==
    Return("parse_llm_output",
           parse_llm_output(applied.args.full_output, applied.args.prompt))

\* nothing else happens
Idle ==
    /\ env = [llm_pipeline |-> "None", nltk |-> "ok", flagged |-> {},
              chained_inplace |-> TRUE, audit |-> "ok"]
    /\ Entered({}, "called", [r \in Runs |-> 0], [r \in Runs |-> NoFrame],
               [r \in Runs |-> <<>>], [r \in Runs |-> FALSE], [r \in Runs |-> None])
    /\ NoRegistry
    /\ users = [rows |-> <<>>, seq |-> 0]
    /\ reply = NoReply
    /\ passwords = [u \in {} |-> <<>>]

InitParse ==
    /\ Idle
    /\ \E full_output \in Outputs, prompt \in Prompts :
          Applying("parse_llm_output", [full_output |-> full_output, prompt |-> prompt])

SpecParse == InitParse /\ [][ParseLlmOutput]_vars

\* y is x without the blanks at its ends
IsTrimmed(y, x) ==
    \E a, b \in 0..Len(x) :
        /\ a + b <= Len(x)
        /\ y = SubSeq(x, a + 1, Len(x) - b)
        /\ \A k \in 1..a : x[k] = " "
        /\ \A k \in (Len(x) - b + 1)..Len(x) : x[k] = " "
        /\ y # <<>> => y[1] # " " /\ y[Len(y)] # " "

\* the positions of the delimiter in a response
DelimiterAt(s) == {k \in 1..Len(s) : s[k] = "Normalized text:"}

\* C27: with the delimiter in the response, parse_llm_output returns the
\* trimmed text after its last occurrence; otherwise, when the response
\* starts with the prompt, the trimmed rest; otherwise the trimmed response.
C27_ParseRules ==
    (applied.func = "parse_llm_output" /\ applied.returned) =>
        \E s \in {applied.args.full_output}, p \in {applied.args.prompt} :
            IF DelimiterAt(s) # {}
            THEN IsTrimmed(applied.value, SubSeq(s, Max(DelimiterAt(s)) + 1, Len(s)))
            ELSE IF Len(p) <= Len(s) /\ \A k \in 1..Len(p) : s[k] = p[k]
            THEN IsTrimmed(applied.value, SubSeq(s, Len(p) + 1, Len(s)))
            ELSE IsTrimmed(applied.value, s)

\* the response holds the delimiter twice and text after the second, which
\* is returned
C27_Witness ==
    /\ applied.func = "parse_llm_output" /\ applied.returned
    /\ Cardinality(DelimiterAt(applied.args.full_output)) = 2
    /\ applied.value # <<>>

\* ------------------------------------------------------------- cli/cli.py
\* module_map of build_steps_from_config: the names it knows and the
\* functions it gives them
module_map ==
    [n \in {"missing_imputer", "text_normalizer", "outlier_detector"} |->
        CASE n = "missing_imputer" -> "impute_missing"
          [] n = "text_normalizer" -> "normalize_text"
          [] n = "outlier_detector" -> "detect_outliers"]

\* module_name in module_map, for module_name = step_config.get('module')
InModuleMap(step_config) ==
    "module" \in DOMAIN step_config /\ step_config.module \in DOMAIN module_map

\* build_steps_from_config(config_data)
build_steps_from_config(config_data) ==
    LET known == SelectSeq(Get(config_data, "steps", <<>>), InModuleMap)
    IN  [k \in 1..Len(known) |->
            ModuleConfig(known[k].module, module_map[known[k].module],
                         Get(known[k], "params", NoParams), TRUE)]

BuildStepsFromConfig ==
    Return("build_steps_from_config", build_steps_from_config(applied.args.config_data))

\* the module names of the configurations: the directories of src/modules
\* and src/plugins, and a name nothing has
ConfigNames ==
    {"missing_imputer", "outlier_detector", "intelligent_text_normalizer",
     "file_parser", "imputer"}

ConfigParams == {NoParams, [columns |-> <<"num">>]}

\* the entries of 'steps': with and without params, and without module
ConfigEntries ==
    {[module |-> n, params |-> p] : n \in ConfigNames, p \in ConfigParams}
    \cup {[module |-> n] : n \in ConfigNames}
    \cup {[params |-> p] : p \in ConfigParams}

\* the JSON documents: with a list of steps, and without the key
Configs ==
    {[steps |-> l] : l \in StepLists(ConfigEntries)} \cup {NoParams}

InitConfig ==
    /\ Idle
    /\ \E config_data \in Configs :
          Applying("build_steps_from_config", [config_data |-> config_data])

SpecConfig == InitConfig /\ [][BuildStepsFromConfig]_vars

\* src/modules and src/plugins as the repository has them: of the packages
\* only outlier_detector and intelligent_text_normalizer have a process
RepositoryFiles ==
    [modules |-> << Item(<<"__init__.py">>, FALSE, "no_process"),
                    Item(<<"file_parser">>, TRUE, "no_process"),
                    Item(<<"missing_imputer">>, TRUE, "no_process"),
                    Item(<<"outlier_detector">>, TRUE, "process"),
                    Item(<<"text_normalizer">>, TRUE, "no_process") >>,
     plugins |-> << Item(<<"intelligent_text_normalizer">>, TRUE, "process") >>,
     plugins_exists |-> TRUE]

\* the names ModuleRegistry registers for the repository
RegisteredNames ==
    {n[1] : n \in DOMAIN _scan_modules(EmptyDict, RepositoryFiles).modules}

\* the entries of a configuration whose module is one of names
EntriesOf(config_data, names) ==
    SelectSeq(Get(config_data, "steps", <<>>),
              LAMBDA e : "module" \in DOMAIN e /\ e.module \in names)

\* value holds one step configuration for each of entries, in their order,
\* with the entry's module as name and the entry's params
StepsFor(value, entries) ==
    /\ Len(value) = Len(entries)
    /\ \A k \in 1..Len(entries) :
          /\ value[k].name = entries[k].module
          /\ value[k].params = Get(entries[k], "params", NoParams)

\* C28: build_steps_from_config returns one step configuration for each
\* entry of 'steps' whose module is a registered name, in the order of the
\* entries and with the entry's params; the other entries are skipped.
C28_StepsForRegisteredNames ==
    (applied.func = "build_steps_from_config" /\ applied.returned) =>
        StepsFor(applied.value, EntriesOf(applied.args.config_data, RegisteredNames))

\* the characters of parameter strings: a letter, the separators, a digit,
\* the point, the exponent letter and the words true and True, each word
\* one character
ParamAtoms == {"k", "=", ",", "1", ".", "e", "true", "True"}

\* str.lower() of a parameter value
ParamLower(s) == [k \in 1..Len(s) |-> IF s[k] = "True" THEN "true" ELSE s[k]]

\* s.split(sep): the parts between the separators, empty parts kept
RECURSIVE SplitOn(_, _)
SplitOn(s, sep) ==
    IF sep \notin Range(s) THEN <<s>>
    ELSE LET k == Min({j \in 1..Len(s) : s[j] = sep})
         IN  <<SubSeq(s, 1, k - 1)>> \o SplitOn(SubSeq(s, k + 1, Len(s)), sep)

\* param_string.split(): the parts between runs of blanks, none empty
SplitBlanks(s) == SelectSeq(SplitOn(s, " "), LAMBDA part : part # <<>>)

AllDigits(s) == s # <<>> /\ \A k \in 1..Len(s) : s[k] = "1"

\* int(value) does not raise ValueError: digits only
IntParses(value) == AllDigits(value)

\* int(value)
RECURSIVE IntOf(_)
IntOf(value) ==
    IF value = <<>> THEN 0 ELSE 10 * IntOf(SubSeq(value, 1, Len(value) - 1)) + 1

\* float(value) does not raise ValueError: digits with at most one point
\* and at least one digit, then possibly e and digits
FloatParses(value) ==
    LET parts == SplitOn(value, "e")
        mantissa == SplitOn(parts[1], ".")
    IN  /\ Len(parts) <= 2
        /\ Len(parts) = 2 => AllDigits(parts[2])
        /\ Len(mantissa) <= 2
        /\ \A k \in 1..Len(mantissa) : mantissa[k] = <<>> \/ AllDigits(mantissa[k])
        /\ \E k \in 1..Len(mantissa) : mantissa[k] # <<>>

\* the values of a parsed parameter
ListValue(items) == [kind |-> "list", items |-> items]
BoolValue(b) == [kind |-> "bool", b |-> b]
IntValue(n) == [kind |-> "int", n |-> n]
FloatValue(literal) == [kind |-> "float", literal |-> literal]
StrValue(s) == [kind |-> "str", s |-> s]

\* the conversion of the value of a pair
ParamValue(value) ==
    IF "," \in Range(value) THEN ListValue(SplitOn(value, ","))
    ELSE IF ParamLower(value) \in { <<"true">>, <<"false">> }
    THEN BoolValue(ParamLower(value) = <<"true">>)
    ELSE IF "." \in Range(value)
    THEN IF FloatParses(value) THEN FloatValue(value) ELSE StrValue(value)
    ELSE IF IntParses(value) THEN IntValue(IntOf(value)) ELSE StrValue(value)

\* pair.split('=', 1)
KeyOf(pair) == SubSeq(pair, 1, Min({j \in 1..Len(pair) : pair[j] = "="}) - 1)
ValueOf(pair) == SubSeq(pair, Min({j \in 1..Len(pair) : pair[j] = "="}) + 1, Len(pair))

\* the loop of parse_params over the pairs, params being the dict so far
RECURSIVE ParsePairs(_, _)
ParsePairs(params, pairs) ==
    IF pairs = <<>> THEN params
    ELSE IF "=" \in Range(Head(pairs))
    THEN ParsePairs(SetItem(params, KeyOf(Head(pairs)), ParamValue(ValueOf(Head(pairs)))),
                    Tail(pairs))
    ELSE ParsePairs(params, Tail(pairs))

\* parse_params(param_string)
parse_params(param_string) == ParsePairs(NoParams, SplitBlanks(param_string))

ParseParams == Return("parse_params", parse_params(applied.args.param_string))

\* the tokens a caller writes: any text of up to MaxText characters
ParamTexts == UNION {[1..n -> ParamAtoms] : n \in 0..MaxText}

\* the parameter strings: a text alone, the text as the value of k, and
\* that followed by a token without '=' or by another pair
ParamStrings ==
    ParamTexts
    \cup {<<"k", "=">> \o v : v \in ParamTexts}
    \cup {<<"k", "=">> \o v \o <<" ">> \o t : v \in ParamTexts,
                                             t \in { <<"k">>, <<"e", "=", "1">> }}

InitParams ==
    /\ Idle
    /\ \E param_string \in ParamStrings :
          Applying("parse_params", [param_string |-> param_string])

SpecParams == InitParams /\ [][ParseParams]_vars

\* the value the rules give the text of a pair's value
RuleHolds(value, converted) ==
    IF "," \in Range(value) THEN converted.kind = "list"
    ELSE IF ParamLower(value) \in { <<"true">>, <<"false">> }
    THEN converted = BoolValue(ParamLower(value) = <<"true">>)
    ELSE IF IntParses(value) \/ FloatParses(value)
    THEN converted.kind \in {"int", "float"}
    ELSE converted = StrValue(value)

\* C29: parse_params has a key for every token with '=' and no other; the
\* value of a key is a list when the text has a comma, else a boolean when
\* it is true or false in any case, else a number when it parses as an
\* integer or as a float, else the text.
C29_ParamRules ==
    (applied.func = "parse_params" /\ applied.returned) =>
        \E pairs \in {SelectSeq(SplitBlanks(applied.args.param_string),
                                LAMBDA t : "=" \in Range(t))} :
            /\ DOMAIN applied.value = {KeyOf(pairs[k]) : k \in 1..Len(pairs)}
            /\ \A k \in 1..Len(pairs) :
                  (\A j \in (k + 1)..Len(pairs) : KeyOf(pairs[j]) # KeyOf(pairs[k]))
                  => RuleHolds(ValueOf(pairs[k]), applied.value[KeyOf(pairs[k])])

====
